---------------------------- MODULE Spec2Model ----------------------------
(***************************************************************************)
(* Model of the tk-photoshopcc model-sheet batch:                          *)
(*   add_model_sheet_layer/add_model_sheet_layer.py  (the orchestrator)    *)
(*   add_model_sheet_layer/model_sheet_layer.py      (the banner)          *)
(*   engine.py                                       (post_qt_init, save,  *)
(*                                                    save_to_path, the    *)
(*                                                    engine flags)        *)
(* Strings are sequences of one-character strings, so that rsplit, split,  *)
(* join, replace and zfill are computed as Python computes them.           *)
(***************************************************************************)
EXTENDS Integers, Sequences, FiniteSets, TLC

(***************************************************************************)
(* Bounds of the model.                                                    *)
(***************************************************************************)
\* largest number of PublishedFile records queued in one batch
MaxDocs == 2
\* largest version number of a work file found on disk before the batch
MaxWorkVersion == 3

(***************************************************************************)
(* Python string and list primitives.                                      *)
(***************************************************************************)
Max(S) == CHOOSE x \in S : \A y \in S : y <= x

\* index of the last occurrence of character c in s, 0 when absent
LastIndexOf(s, c) ==
    LET I == {i \in 1..Len(s) : s[i] = c}
    IN  IF I = {} THEN 0 ELSE Max(I)

\* index of the first occurrence of character c in s, 0 when absent
FirstIndexOf(s, c) ==
    LET I == {i \in 1..Len(s) : s[i] = c}
    IN  IF I = {} THEN 0 ELSE CHOOSE i \in I : \A j \in I : i <= j

\* s.rsplit(c, 1): a list of one or two strings
RSplit1(s, c) ==
    LET i == LastIndexOf(s, c)
    IN  IF i = 0 THEN <<s>>
        ELSE <<SubSeq(s, 1, i - 1), SubSeq(s, i + 1, Len(s))>>

\* s.split(c): a list of at least one string
RECURSIVE Split(_, _)
Split(s, c) ==
    LET i == FirstIndexOf(s, c)
    IN  IF i = 0 THEN <<s>>
        ELSE <<SubSeq(s, 1, i - 1)>> \o Split(SubSeq(s, i + 1, Len(s)), c)

\* c.join(parts)
RECURSIVE Join(_, _)
Join(parts, c) ==
    IF Len(parts) = 0 THEN <<>>
    ELSE IF Len(parts) = 1 THEN parts[1]
    ELSE parts[1] \o <<c>> \o Join(Tail(parts), c)

\* the list after list.pop() (the list is never empty where the code pops)
Pop(parts) == SubSeq(parts, 1, Len(parts) - 1)

\* s.startswith(p)
StartsWith(s, p) == Len(p) <= Len(s) /\ SubSeq(s, 1, Len(p)) = p

\* s.replace(old, new), old not empty: every non-overlapping occurrence
RECURSIVE Replace(_, _, _)
Replace(s, old, new) ==
    IF Len(s) = 0 THEN <<>>
    ELSE IF StartsWith(s, old)
         THEN new \o Replace(SubSeq(s, Len(old) + 1, Len(s)), old, new)
         ELSE <<Head(s)>> \o Replace(Tail(s), old, new)

Digits == <<"0", "1", "2", "3", "4", "5", "6", "7", "8", "9">>

\* str(n) for n >= 0
RECURSIVE Str(_)
Str(n) == IF n < 10 THEN <<Digits[n + 1]>>
          ELSE Str(n \div 10) \o <<Digits[(n % 10) + 1]>>

\* s.zfill(width)
RECURSIVE Zfill(_, _)
Zfill(s, width) == IF Len(s) >= width THEN s ELSE Zfill(<<"0">> \o s, width)


(***************************************************************************)
(* The collaborators' data: paths, PublishedFile records, work files.      *)
(***************************************************************************)
\* sg_pubfile['path']['local_path'] is None
NoPath == [template |-> "none", key |-> "", extension |-> "", version |-> 0]

\* template.apply_fields(fields): the path of a template with its fields
ApplyFields(template, key, extension, version) ==
    [template |-> template, key |-> key, extension |-> extension,
     version |-> version]

\* the names of the PublishedFile records a batch may be given:
\*      HERO_V01_PSD   a psd on disk whose name carries a version token
\*      CHAR_HERO_JPG  a jpg on disk whose name carries no version token
\*      BG_V02_TIF     a tif on disk (neither psd/psb nor jpg/jpeg/png)
\*      HERO_PSB       a psb on disk whose name has no underscore at all
\*      GONE_V01_PSD   a record whose file is no longer on disk
\*      URL_V01_PSD    a record without a local path
HERO_V01_PSD == <<"h", "e", "r", "o", "_", "v", "0", "1", ".", "p", "s", "d">>
CHAR_HERO_JPG ==
    <<"c", "h", "a", "r", "_", "h", "e", "r", "o", ".", "j", "p", "g">>
BG_V02_TIF == <<"b", "g", "_", "v", "0", "2", ".", "t", "i", "f">>
HERO_PSB == <<"h", "e", "r", "o", ".", "p", "s", "b">>
GONE_V01_PSD == <<"g", "o", "n", "e", "_", "v", "0", "1", ".", "p", "s", "d">>
URL_V01_PSD == <<"u", "r", "l", "_", "v", "0", "1", ".", "p", "s", "d">>

SourceRecord(name, key, extension, version, version_id, lists, has_path) ==
    [name |-> name, task |-> 1, version_number |-> version,
     path |-> IF has_path THEN ApplyFields("publish", key, extension, version)
              ELSE NoPath,
     published_file_type |-> "Photoshop Image",
     version |-> version_id, playlists |-> lists]

SourceRecords ==
    { SourceRecord(HERO_V01_PSD, "hero", "psd", 1, 1, <<1>>, TRUE),
      SourceRecord(CHAR_HERO_JPG, "char_hero", "jpg", 2, 2, <<>>, TRUE),
      SourceRecord(BG_V02_TIF, "bg", "tif", 2, 3, <<>>, TRUE),
      SourceRecord(HERO_PSB, "hero", "psb", 1, 4, <<1>>, TRUE),
      SourceRecord(GONE_V01_PSD, "gone", "psd", 1, 5, <<>>, TRUE),
      SourceRecord(URL_V01_PSD, "url", "psd", 1, 6, <<>>, FALSE) }

\* the published files that are on disk before the batch
PublishedOnDisk ==
    { r.path : r \in { s \in SourceRecords :
                         s.path # NoPath /\ s.path.key # "gone" } }

\* the work files that may be on disk before the batch
WorkFileChoices ==
    { {},
      { ApplyFields("work", "hero", "psd", 1),
        ApplyFields("work", "hero", "psd", MaxWorkVersion),
        ApplyFields("work", "char_hero", "jpg", 1) } }

\* the values of the MODELSHEET_* environment variables that the launcher
\* sets; a parameter that the chosen export mode never reads keeps its default
BatchRequests ==
    { r \in [MODELSHEET_EXPORT_MODE : {0, 1, 2},
             MODELSHEET_VERSION_PLAYLIST_MODE : {0, 1, 2},
             MODELSHEET_NEW_PLAYLIST_NAME : {"review"},
             MODELSHEET_COPY_NOTES : BOOLEAN,
             MODELSHEET_CREATE_JPEG : BOOLEAN,
             MODELSHEET_OPEN_EXPORT_FOLDER : BOOLEAN] :
        /\ r.MODELSHEET_EXPORT_MODE # 0 =>
             /\ r.MODELSHEET_VERSION_PLAYLIST_MODE = 0
             /\ ~r.MODELSHEET_COPY_NOTES
        /\ r.MODELSHEET_EXPORT_MODE # 1 =>
             /\ ~r.MODELSHEET_CREATE_JPEG
             /\ ~r.MODELSHEET_OPEN_EXPORT_FOLDER }

\* all orders of the elements of the finite set S
RECURSIVE Permutations_(_)
Permutations_(S) ==
    IF S = {} THEN {<<>>}
    ELSE UNION { { <<x>> \o p : p \in Permutations_(S \ {x}) } : x \in S }


(***************************************************************************)
(* State.                                                                  *)
(***************************************************************************)
VARIABLES
    env,                \* os.environ: the MODELSHEET_* variables
    pubfiles,           \* Publish Registry: PublishedFile records, id = index
    versions,           \* Publish Registry: Version records created so far
    playlists,          \* Publish Registry: Playlist records, id = index
    notes,              \* Publish Registry: note_links of each Note
    disk,               \* the paths that exist on disk
    open_docs,          \* Document Editor: open documents, the last is active
    host_running,       \* Document Editor: Photoshop has not been quit
    CONTEXT_CHANGES_DISABLED,   \* engine._CONTEXT_CHANGES_DISABLED
    busy,               \* engine.show_busy / engine.clear_busy
    alerts,             \* alerts shown to the operator by post_qt_init
    logged,             \* exceptions logged by post_qt_init
    pc,                 \* position of post_qt_init / add_model_sheet_layer
    exc,                \* the exception that is propagating or was handled
    mode,
    version_playlist_mode,
    copy_version_notes,
    create_jpeg,
    open_export_folder,
    sg_pubfiles,        \* ids of the records returned by find, in its order
    idx,                \* position of the for loop in sg_pubfiles
    version_number,
    original_extension,
    version_name,
    version_playlists,
    sg_version,
    publish_jpg_name,
    calls,              \* the collaborator calls made, in order
    activeDocument,     \* Document Editor: app.activeDocument, 0 for none
    documents,          \* Document Editor: the documents, by id
    args,               \* the arguments of the call that is examined alone
    locals,             \* its local variables
    result,             \* the value it returned
    engine,             \* the attributes of the engine instance
    app,                \* Document Editor: preferences and dialog mode
    settings            \* the settings manager: the stored values, by scope

engine_vars == <<CONTEXT_CHANGES_DISABLED, busy, alerts, logged>>
registry_vars == <<pubfiles, versions, playlists, notes>>
request_vars == <<mode, version_playlist_mode, copy_version_notes,
                  create_jpeg, open_export_folder, sg_pubfiles>>
publish_vars == <<version_number, original_extension, version_name,
                  version_playlists, sg_version, publish_jpg_name>>
host_vars == <<activeDocument, documents>>
call_vars == <<args, locals, result>>
handler_vars == <<engine, app, settings>>
vars == <<env, pubfiles, versions, playlists, notes, disk, open_docs,
          host_running, CONTEXT_CHANGES_DISABLED, busy, alerts, logged, pc,
          exc, mode, version_playlist_mode, copy_version_notes, create_jpeg,
          open_export_folder, sg_pubfiles, idx, version_number,
          original_extension, version_name, version_playlists, sg_version,
          publish_jpg_name, calls, activeDocument, documents, args, locals,
          result, engine, app, settings>>

\* no exception; an exception of some type raised by the step pc is at
NoException == [type |-> "none", at |-> "none"]
Raised(type) == [type |-> type, at |-> pc]

\* a local variable that no statement has assigned yet
Unbound == <<"<unbound>">>

\* the record the for loop is at
sg_pubfile == pubfiles[sg_pubfiles[idx]]

\* one collaborator call, made for the current record by the publish or the
\* export sequence (or by neither); ref is the id of the Version it creates
\* or is given, 0 when there is none
Call(op, sequence, ref) ==
    calls' = Append(calls, [op |-> op, doc |-> sg_pubfiles[idx],
                            seq |-> sequence, ref |-> ref])

\* the engine and add_model_sheet_layer before the batch has started
Idle ==
    /\ versions = <<>>
    /\ notes = <<{1}, {2, 3}>>
    /\ open_docs = <<>>
    /\ host_running = TRUE
    /\ CONTEXT_CHANGES_DISABLED = FALSE
    /\ busy = FALSE
    /\ alerts = 0
    /\ logged = 0
    /\ exc = NoException
    /\ mode = 0
    /\ version_playlist_mode = 0
    /\ copy_version_notes = FALSE
    /\ create_jpeg = FALSE
    /\ open_export_folder = FALSE
    /\ sg_pubfiles = <<>>
    /\ idx = 0
    /\ version_number = 0
    /\ original_extension = ""
    /\ version_name = <<>>
    /\ version_playlists = <<>>
    /\ sg_version = 0
    /\ publish_jpg_name = Unbound
    /\ calls = <<>>

\* no call is examined alone
NoCall ==
    /\ activeDocument = 0
    /\ documents = <<>>
    /\ args = <<>>
    /\ locals = <<>>
    /\ result = <<>>

\* no event handler of the engine is examined: the engine, the host and the
\* settings manager are left out
NoHandler ==
    /\ engine = <<>>
    /\ app = <<>>
    /\ settings = <<>>

Init ==
    /\ \E n \in 0..MaxDocs :
         /\ pubfiles \in [1..n -> SourceRecords]
         /\ \E r \in BatchRequests :
              env = r @@ [MODELSHEET_PUB_FILE_IDS |-> [i \in 1..n |-> i]]
    /\ playlists \in
         IF env.MODELSHEET_VERSION_PLAYLIST_MODE = 2
         THEN { <<[code |-> "dailies"]>>,
                <<[code |-> "dailies"], [code |-> "review"]>> }
         ELSE { <<[code |-> "dailies"]>> }
    /\ \E work \in WorkFileChoices : disk = PublishedOnDisk \cup work
    /\ pc = "post_qt_init"
    /\ Idle
    /\ NoHandler
    /\ NoCall

(***************************************************************************)
(* engine.post_qt_init and the start of add_model_sheet_layer.             *)
(***************************************************************************)
\* engine.shotgun.find("PublishedFile", ...) with the "any" filter over the
\* ids and no order argument: the matching records, in the server's order
Find(ids) ==
    Permutations_({ i \in 1..Len(pubfiles) :
                      \E k \in 1..Len(ids) : ids[k] = i })

\* post_qt_init finds MODELSHEET_PUB_FILE_IDS in the environment and runs the
\* batch; add_model_sheet_layer reads the environment
Start ==
    /\ pc = "post_qt_init"
    /\ mode' = env.MODELSHEET_EXPORT_MODE
    /\ version_playlist_mode' = env.MODELSHEET_VERSION_PLAYLIST_MODE
    /\ copy_version_notes' = env.MODELSHEET_COPY_NOTES
    /\ create_jpeg' = env.MODELSHEET_CREATE_JPEG
    /\ open_export_folder' = env.MODELSHEET_OPEN_EXPORT_FOLDER
    /\ pc' = "find"
    /\ UNCHANGED <<env, host_vars, call_vars, handler_vars, registry_vars,
                   disk, open_docs, host_running, engine_vars, exc,
                   sg_pubfiles, idx, publish_vars, calls>>

\* the records of the queued ids are queried all at once, then context
\* switching is disabled
FindPublishedFiles ==
    /\ pc = "find"
    /\ sg_pubfiles' \in Find(env.MODELSHEET_PUB_FILE_IDS)
    /\ CONTEXT_CHANGES_DISABLED' = TRUE
    /\ pc' = "for"
    /\ UNCHANGED <<env, host_vars, call_vars, handler_vars, registry_vars,
                   disk, open_docs, host_running, busy, alerts, logged, exc,
                   mode, version_playlist_mode, copy_version_notes,
                   create_jpeg, open_export_folder, idx, publish_vars, calls>>

\* for sg_pubfile in sg_pubfiles: the next record, its local path and the
\* os.path.exists test; os.path.exists(None) raises TypeError
LoopHead ==
    /\ pc = "for"
    /\ IF idx = Len(sg_pubfiles)
       THEN /\ pc' = "cleanup"
            /\ UNCHANGED <<idx, exc>>
       ELSE LET local_path == pubfiles[sg_pubfiles[idx + 1]].path
            IN  /\ idx' = idx + 1
                /\ IF local_path = NoPath
                   THEN pc' = "except" /\ exc' = Raised("TypeError")
                   ELSE IF local_path \notin disk
                   THEN pc' = "for" /\ UNCHANGED exc
                   ELSE pc' = "open" /\ UNCHANGED exc
    /\ UNCHANGED <<env, host_vars, call_vars, handler_vars, registry_vars,
                   disk, open_docs, host_running, engine_vars, request_vars,
                   publish_vars, calls>>

\* a branch on the export mode that ends in else instead of elif mode == 1
OpenDocument_else ==
    /\ pc = "open"
    /\ busy' = TRUE
    /\ open_docs' = Append(open_docs, sg_pubfiles[idx])
    /\ Call("open", "none", 0)
    /\ pc' = IF mode = 0 THEN "resolve" ELSE "draw_export"
    /\ UNCHANGED <<env, host_vars, call_vars, handler_vars, registry_vars,
                   disk, host_running, CONTEXT_CHANGES_DISABLED, alerts,
                   logged, exc, request_vars, idx, publish_vars>>

\* the context and asset queries, then engine.adobe.app.load(file_open), and
\* the branch on the export mode
OpenDocument ==
    /\ pc = "open"
    /\ busy' = TRUE
    /\ open_docs' = Append(open_docs, sg_pubfiles[idx])
    /\ Call("open", "none", 0)
    /\ pc' = IF mode = 0 THEN "resolve"
             ELSE IF mode = 1 THEN "draw_export"
             ELSE "for"
    /\ UNCHANGED <<env, host_vars, call_vars, handler_vars, registry_vars,
                   disk, host_running, CONTEXT_CHANGES_DISABLED, alerts,
                   logged, exc, request_vars, idx, publish_vars>>

(***************************************************************************)
(* Export to the file system (mode == 1).                                  *)
(***************************************************************************)
\* the flag after model_sheet_layer: it is left alone without the logo image,
\* and with it the context_changes_disabled() scope of the logo placement
\* leaves context changes enabled
LogoPlaced ==
    CONTEXT_CHANGES_DISABLED' \in {CONTEXT_CHANGES_DISABLED, FALSE}

\* model_sheet_layer.model_sheet_layer(...) on the active document
DrawExport ==
    /\ pc = "draw_export"
    /\ busy' = TRUE
    /\ LogoPlaced
    /\ Call("draw", "export", 0)
    /\ pc' = "saveAs"
    /\ UNCHANGED <<env, host_vars, call_vars, handler_vars, registry_vars,
                   disk, open_docs, host_running, alerts, logged, exc,
                   request_vars, idx, publish_vars>>

\* the output path, os.makedirs and activeDocument.saveAs
SaveExport ==
    /\ pc = "saveAs"
    /\ busy' = TRUE
    /\ disk' = disk \cup
         { ApplyFields("export", sg_pubfile.path.key,
                       sg_pubfile.path.extension, sg_pubfile.path.version) }
    /\ Call("save", "export", 0)
    /\ pc' = IF create_jpeg THEN "export_jpeg" ELSE "close_export"
    /\ UNCHANGED <<env, host_vars, call_vars, handler_vars, registry_vars,
                   open_docs, host_running, CONTEXT_CHANGES_DISABLED, alerts,
                   logged, exc, request_vars, idx, publish_vars>>

\* engine.export_as_jpeg next to the saved file; its context manager leaves
\* context changes enabled
ExportJpeg ==
    /\ pc = "export_jpeg"
    /\ busy' = TRUE
    /\ disk' = disk \cup
         { ApplyFields("export", sg_pubfile.path.key, "jpg",
                       sg_pubfile.path.version) }
    /\ CONTEXT_CHANGES_DISABLED' = FALSE
    /\ Call("export_jpeg", "export", 0)
    /\ pc' = "close_export"
    /\ UNCHANGED <<env, host_vars, call_vars, handler_vars, registry_vars,
                   open_docs, host_running, alerts, logged, exc, request_vars,
                   idx, publish_vars>>

\* an export sequence that leaves the document open
CloseExport_skipped ==
    /\ pc = "close_export"
    /\ pc' = IF open_export_folder THEN "open_folder" ELSE "for"
    /\ UNCHANGED <<env, host_vars, call_vars, handler_vars, registry_vars,
                   disk, open_docs, host_running, engine_vars, exc,
                   request_vars, idx, publish_vars, calls>>

\* activeDocument.close(DONOTSAVECHANGES)
CloseExport ==
    /\ pc = "close_export"
    /\ open_docs' = Pop(open_docs)
    /\ Call("close", "export", 0)
    /\ pc' = IF open_export_folder THEN "open_folder" ELSE "for"
    /\ UNCHANGED <<env, host_vars, call_vars, handler_vars, registry_vars,
                   disk, host_running, engine_vars, exc, request_vars, idx,
                   publish_vars>>

\* import platform: the name platform is bound to the module, never to the
\* name of an operating system
platform == "<module 'platform'>"

\* if platform == "darwin": subprocess.check_call(['open', export_folder])
\* elif platform == "win32": subprocess.Popen('explorer /select,...')
OpenExportFolder ==
    /\ pc = "open_folder"
    /\ IF platform = "darwin" \/ platform = "win32"
       THEN Call("reveal", "export", 0)
       ELSE UNCHANGED calls
    /\ pc' = "for"
    /\ UNCHANGED <<env, host_vars, call_vars, handler_vars, registry_vars,
                   disk, open_docs, host_running, engine_vars, exc,
                   request_vars, idx, publish_vars>>

(***************************************************************************)
(* The end of the batch.                                                   *)
(***************************************************************************)
\* after the loop: clear_busy, quit Photoshop, re-enable context switching
Cleanup ==
    /\ pc = "cleanup"
    /\ busy' = FALSE
    /\ host_running' = FALSE
    /\ open_docs' = <<>>
    /\ CONTEXT_CHANGES_DISABLED' = FALSE
    /\ calls' = Append(calls, [op |-> "quit", doc |-> 0, seq |-> "none",
                                ref |-> 0])
    /\ pc' = "finally"
    /\ UNCHANGED <<env, host_vars, call_vars, handler_vars, registry_vars,
                   disk, alerts, logged, exc, request_vars, idx,
                   publish_vars>>

\* post_qt_init: except Exception as e: logger.exception(e); alert(...)
Except ==
    /\ pc = "except"
    /\ logged' = logged + 1
    /\ alerts' = alerts + 1
    /\ pc' = "finally"
    /\ UNCHANGED <<env, host_vars, call_vars, handler_vars, registry_vars,
                   disk, open_docs, host_running, CONTEXT_CHANGES_DISABLED,
                   busy, exc, request_vars, idx, publish_vars, calls>>

\* post_qt_init: finally: self.clear_busy()
Finally ==
    /\ pc = "finally"
    /\ busy' = FALSE
    /\ pc' = "done"
    /\ UNCHANGED <<env, host_vars, call_vars, handler_vars, registry_vars,
                   disk, open_docs, host_running, CONTEXT_CHANGES_DISABLED,
                   alerts, logged, exc, request_vars, idx, publish_vars,
                   calls>>


(***************************************************************************)
(* Publish as a new version (mode == 0).                                   *)
(***************************************************************************)
\* tk.paths_from_template(template, fields, skip_fields=["version"]): the
\* paths on disk that agree with fields on every key but the version
paths_from_template(paths, template, fields) ==
    { a_file \in paths : /\ a_file.template = template
                         /\ a_file.key = fields.key
                         /\ a_file.extension = fields.extension }

\* a scan that fills gaps: the smallest version number that is not on disk
get_next_version_number_gap(paths, template, fields) ==
    LET found == { a_file.version :
                     a_file \in paths_from_template(paths, template, fields) }
    IN  CHOOSE n \in 1..(Cardinality(found) + 1) :
          n \notin found /\ \A m \in 1..(n - 1) : m \in found

\* get_next_version_number(tk, template, fields)
get_next_version_number(paths, template, fields) ==
    LET file_paths == paths_from_template(paths, template, fields)
        found == { a_file.version : a_file \in file_paths }
    IN  IF Cardinality(found) = 0 THEN 1 ELSE Max(found) + 1

\* engine.shotgun.summarize of PublishedFile, filtered by task and name, with
\* the maximum of version_number: <<m>>, or <<>> for None (no record)
SummarizeMaximum(records, task, name) ==
    LET matching == { records[i].version_number :
                        i \in { j \in 1..Len(records) :
                                  /\ records[j].task = task
                                  /\ records[j].name = name } }
    IN  IF matching = {} THEN <<>> ELSE <<Max(matching)>>

\* a resolution that looks at the published files only
ResolveVersionNumber_pubfiles(summary, paths, fields) == summary[1] + 1

\* fields["version"]: the larger of the next published-file version and the
\* next work-file version
ResolveVersionNumber(summary, paths, fields) ==
    LET highest_pubfile_version_number == summary[1] + 1
        highest_work_version_number ==
            get_next_version_number(paths, "work", fields)
    IN  Max({highest_pubfile_version_number, highest_work_version_number})

\* the summarize query and the work-file scan; None + 1 raises TypeError
ResolveVersion ==
    /\ pc = "resolve"
    /\ busy' = TRUE
    /\ LET fields == sg_pubfile.path
           summary == SummarizeMaximum(pubfiles, sg_pubfile.task,
                                       sg_pubfile.name)
       IN  IF summary = <<>>
           THEN /\ pc' = "except"
                /\ exc' = Raised("TypeError")
                /\ UNCHANGED <<version_number, original_extension>>
           ELSE /\ version_number' = ResolveVersionNumber(summary, disk,
                                                          fields)
                /\ original_extension' = fields.extension
                /\ pc' = "draw_publish"
                /\ UNCHANGED exc
    /\ UNCHANGED <<env, host_vars, call_vars, handler_vars, registry_vars,
                   disk, open_docs, host_running, CONTEXT_CHANGES_DISABLED,
                   alerts, logged, request_vars, idx, version_name,
                   version_playlists, sg_version, publish_jpg_name, calls>>

\* publish_template.apply_fields(fields) with the resolved version
publish_path ==
    ApplyFields("publish", sg_pubfile.path.key, original_extension,
                version_number)

\* the same with fields["extension"] = "jpg"
published_jpg_path ==
    ApplyFields("publish", sg_pubfile.path.key, "jpg", version_number)

\* model_sheet_layer.model_sheet_layer(...) on the active document
DrawPublish ==
    /\ pc = "draw_publish"
    /\ busy' = TRUE
    /\ LogoPlaced
    /\ Call("draw", "publish", 0)
    /\ pc' = "save_to_path"
    /\ UNCHANGED <<env, host_vars, call_vars, handler_vars, registry_vars,
                   disk, open_docs, host_running, alerts, logged, exc,
                   request_vars, idx, publish_vars>>

\* engine.save_to_path(activeDocument, publish_path); its context manager
\* leaves context changes enabled
SaveToPath ==
    /\ pc = "save_to_path"
    /\ disk' = disk \cup {publish_path}
    /\ CONTEXT_CHANGES_DISABLED' = FALSE
    /\ Call("save", "publish", 0)
    /\ pc' = "thumbnail"
    /\ UNCHANGED <<env, host_vars, call_vars, handler_vars, registry_vars,
                   open_docs, host_running, busy, alerts, logged, exc,
                   request_vars, idx, publish_vars>>

\* engine.export_as_jpeg to a temporary file
Thumbnail ==
    /\ pc = "thumbnail"
    /\ busy' = TRUE
    /\ CONTEXT_CHANGES_DISABLED' = FALSE
    /\ Call("thumbnail", "publish", 0)
    /\ pc' = "playlists"
    /\ UNCHANGED <<env, host_vars, call_vars, handler_vars, registry_vars,
                   disk, open_docs, host_running, alerts, logged, exc,
                   request_vars, idx, publish_vars>>

\* the code of the new Version: the publish name without its extension and
\* without its last "_" token, then "_v" and the zero-filled version number
VersionCode(publish_name, number) ==
    LET publish_version_name == RSplit1(publish_name, ".")[1]
        publish_version_name_split == Split(publish_version_name, "_")
    IN  Join(Pop(publish_version_name_split), "_")
          \o <<"_", "v">> \o Zfill(Str(number), 2)

\* engine.shotgun.find_one('Playlist', [['code', 'is', playlist_name]]): the
\* id of the first such playlist, 0 for None
FindOnePlaylist(records, playlist_name) ==
    LET found == { i \in 1..Len(records) : records[i].code = playlist_name }
    IN  IF found = {} THEN 0 ELSE CHOOSE i \in found : \A j \in found : i <= j

\* a create_playlist that never looks for an existing playlist
CreatesPlaylist_always(records, playlist_name) == TRUE

\* create_playlist creates the playlist when find_one returned None
CreatesPlaylist(records, playlist_name) ==
    FindOnePlaylist(records, playlist_name) = 0

\* the version name, then the playlists of the new Version
ResolvePlaylists ==
    /\ pc = "playlists"
    /\ busy' = TRUE
    /\ version_name' = VersionCode(sg_pubfile.name, version_number)
    /\ LET playlist_name == env.MODELSHEET_NEW_PLAYLIST_NAME
       IN  IF version_playlist_mode = 1
           THEN /\ version_playlists' = sg_pubfile.playlists
                /\ UNCHANGED <<playlists, calls>>
           ELSE IF version_playlist_mode = 2
           THEN IF CreatesPlaylist(playlists, playlist_name)
                THEN /\ playlists' = Append(playlists,
                                            [code |-> playlist_name])
                     /\ version_playlists' = <<Len(playlists) + 1>>
                     /\ Call("create_playlist", "publish", 0)
                ELSE /\ version_playlists' =
                          <<FindOnePlaylist(playlists, playlist_name)>>
                     /\ UNCHANGED <<playlists, calls>>
           ELSE /\ version_playlists' = <<>>
                /\ UNCHANGED <<playlists, calls>>
    /\ pc' = "create_version"
    /\ UNCHANGED <<env, host_vars, call_vars, handler_vars, pubfiles,
                   versions, notes, disk, open_docs, host_running,
                   CONTEXT_CHANGES_DISABLED, alerts, logged, exc,
                   request_vars, idx, version_number, original_extension,
                   sg_version, publish_jpg_name>>

\* engine.shotgun.create("Version", version_data)
CreateVersion ==
    /\ pc = "create_version"
    /\ busy' = TRUE
    /\ LET id == Cardinality(SourceRecords) + Len(versions) + 1
       IN  /\ versions' = Append(versions,
                [id |-> id, code |-> version_name,
                 playlists |-> version_playlists,
                 source |-> sg_pubfiles[idx],
                 sg_path_to_frames |-> publish_path,
                 sg_uploaded_movie |-> NoPath])
           /\ sg_version' = id
    /\ Call("create_version", "publish", sg_version')
    /\ pc' = "register_publish"
    /\ UNCHANGED <<env, host_vars, call_vars, handler_vars, pubfiles,
                   playlists, notes, disk, open_docs, host_running,
                   CONTEXT_CHANGES_DISABLED, alerts, logged, exc,
                   request_vars, idx, version_number, original_extension,
                   version_name, version_playlists, publish_jpg_name>>


\* sgtk.util.register_publish(...): a new PublishedFile linked to a Version
RegisteredFile(name, path, number, published_file_type, version_entity) ==
    [name |-> name, task |-> sg_pubfile.task, version_number |-> number,
     path |-> path, published_file_type |-> published_file_type,
     version |-> version_entity, playlists |-> version_playlists]

\* register the saved document, then test the original extension
RegisterPublish ==
    /\ pc = "register_publish"
    /\ busy' = TRUE
    /\ pubfiles' = Append(pubfiles,
          RegisteredFile(sg_pubfile.name, publish_path, version_number,
                         "Photoshop Image", sg_version))
    /\ Call("register_publish", "publish", sg_version)
    /\ pc' = IF original_extension \notin {"jpg", "jpeg", "png"}
             THEN "jpeg_proxy" ELSE "close_publish"
    /\ UNCHANGED <<env, host_vars, call_vars, handler_vars, versions,
                   playlists, notes, disk, open_docs, host_running,
                   CONTEXT_CHANGES_DISABLED, alerts, logged, exc,
                   request_vars, idx, publish_vars>>

\* publish_jpg_name after the if/elif on the original extension: it is
\* assigned for psd and psb only and keeps its earlier value otherwise
ProxyName(publish_name, extension, earlier) ==
    IF extension = "psd"
    THEN Replace(publish_name, <<".", "p", "s", "d">>, <<".", "j", "p", "g">>)
    ELSE IF extension = "psb"
    THEN Replace(publish_name, <<".", "p", "s", "b">>, <<".", "j", "p", "g">>)
    ELSE earlier

\* name the proxy and export it with engine.export_as_jpeg; reading
\* publish_jpg_name before any assignment raises UnboundLocalError
JpegProxy ==
    /\ pc = "jpeg_proxy"
    /\ publish_jpg_name' = ProxyName(sg_pubfile.name, original_extension,
                                     publish_jpg_name)
    /\ IF publish_jpg_name' = Unbound
       THEN /\ pc' = "except"
            /\ exc' = Raised("UnboundLocalError")
            /\ UNCHANGED <<busy, disk, CONTEXT_CHANGES_DISABLED, calls>>
       ELSE /\ busy' = TRUE
            /\ disk' = disk \cup {published_jpg_path}
            /\ CONTEXT_CHANGES_DISABLED' = FALSE
            /\ Call("export_proxy", "publish", 0)
            /\ pc' = "register_jpeg"
            /\ UNCHANGED exc
    /\ UNCHANGED <<env, host_vars, call_vars, handler_vars, registry_vars,
                   open_docs, host_running, alerts, logged, request_vars, idx,
                   version_number, original_extension, version_name,
                   version_playlists, sg_version>>

\* register the proxy as a published file of type "jpg"
RegisterJpeg ==
    /\ pc = "register_jpeg"
    /\ pubfiles' = Append(pubfiles,
          RegisteredFile(publish_jpg_name, published_jpg_path,
                         version_number, "jpg", sg_version))
    /\ Call("register_proxy", "publish", sg_version)
    /\ pc' = "close_publish"
    /\ UNCHANGED <<env, host_vars, call_vars, handler_vars, versions,
                   playlists, notes, disk, open_docs, host_running,
                   engine_vars, exc, request_vars, idx, publish_vars>>

\* a publish sequence that goes on to the next record without the upload
ClosePublish_no_upload ==
    /\ pc = "close_publish"
    /\ open_docs' = Pop(open_docs)
    /\ Call("close", "publish", 0)
    /\ pc' = IF copy_version_notes THEN "copy_notes" ELSE "for"
    /\ UNCHANGED <<env, host_vars, call_vars, handler_vars, registry_vars,
                   disk, host_running, engine_vars, exc, request_vars, idx,
                   publish_vars>>

\* activeDocument.close(DONOTSAVECHANGES)
ClosePublish ==
    /\ pc = "close_publish"
    /\ open_docs' = Pop(open_docs)
    /\ Call("close", "publish", 0)
    /\ pc' = "upload"
    /\ UNCHANGED <<env, host_vars, call_vars, handler_vars, registry_vars,
                   disk, host_running, engine_vars, exc, request_vars, idx,
                   publish_vars>>

\* engine.shotgun.upload("Version", sg_version["id"], upload_path, ...)
UploadMedia ==
    /\ pc = "upload"
    /\ busy' = TRUE
    /\ versions' = [versions EXCEPT
          ![sg_version - Cardinality(SourceRecords)].sg_uploaded_movie =
              publish_path]
    /\ Call("upload", "publish", sg_version)
    /\ pc' = IF copy_version_notes THEN "copy_notes" ELSE "for"
    /\ UNCHANGED <<env, host_vars, call_vars, handler_vars, pubfiles,
                   playlists, notes, disk, open_docs, host_running,
                   CONTEXT_CHANGES_DISABLED, alerts, logged, exc,
                   request_vars, idx, publish_vars>>

\* the notes linked to the prior version are linked to the new one as well
CopyNotes ==
    /\ pc = "copy_notes"
    /\ notes' = [n \in DOMAIN notes |->
                   IF sg_pubfile.version \in notes[n]
                   THEN notes[n] \cup {sg_version} ELSE notes[n]]
    /\ Call("copy_notes", "publish", sg_version)
    /\ pc' = "for"
    /\ UNCHANGED <<env, host_vars, call_vars, handler_vars, pubfiles,
                   versions, playlists, disk, open_docs, host_running,
                   engine_vars, exc, request_vars, idx, publish_vars>>

(***************************************************************************)
(* A collaborator call raises.                                             *)
(***************************************************************************)
\* the steps whose collaborator call runs inside context_changes_disabled()
InContextManager == {"save_to_path", "thumbnail", "jpeg_proxy", "export_jpeg"}

\* the steps that call the Metadata Provider, the Document Editor or the
\* Publish Registry
CallsCollaborator ==
    \/ pc \in {"find", "open", "draw_export", "saveAs", "export_jpeg",
               "close_export", "resolve", "draw_publish", "save_to_path",
               "thumbnail", "create_version", "register_publish",
               "register_jpeg", "close_publish", "upload", "copy_notes",
               "cleanup"}
    \/ pc = "playlists" /\ version_playlist_mode = 2
    \/ /\ pc = "jpeg_proxy"
       /\ ProxyName(sg_pubfile.name, original_extension,
                    publish_jpg_name) # Unbound

\* the call of the current step raises: nothing in add_model_sheet_layer
\* catches it, so it reaches post_qt_init; context_changes_disabled() has no
\* finally, so the flag stays set when its body raises
CollaboratorRaises ==
    /\ CallsCollaborator
    /\ pc' = "except"
    /\ exc' = Raised("collaborator")
    /\ CONTEXT_CHANGES_DISABLED' =
         IF pc \in InContextManager THEN TRUE ELSE CONTEXT_CHANGES_DISABLED
    /\ busy' = IF pc = "cleanup" THEN FALSE
               ELSE IF pc = "find" THEN busy ELSE TRUE
    /\ UNCHANGED <<env, host_vars, call_vars, handler_vars, registry_vars,
                   disk, open_docs, host_running, alerts, logged,
                   request_vars, idx, publish_vars, calls>>

(***************************************************************************)
(* The specification.                                                      *)
(***************************************************************************)
Next ==
    \/ Start
    \/ FindPublishedFiles
    \/ LoopHead
    \/ OpenDocument
    \/ DrawExport
    \/ SaveExport
    \/ ExportJpeg
    \/ CloseExport
    \/ OpenExportFolder
    \/ ResolveVersion
    \/ DrawPublish
    \/ SaveToPath
    \/ Thumbnail
    \/ ResolvePlaylists
    \/ CreateVersion
    \/ RegisterPublish
    \/ JpegProxy
    \/ RegisterJpeg
    \/ ClosePublish
    \/ UploadMedia
    \/ CopyNotes
    \/ CollaboratorRaises
    \/ Cleanup
    \/ Except
    \/ Finally

Spec == Init /\ [][Next]_vars


(***************************************************************************)
(* get_next_version_number on its own: one scan of the work files of one   *)
(* record, over every set of work files up to MaxWorkVersion.              *)
(***************************************************************************)
WorkFileUniverse ==
    { ApplyFields("work", f[1], f[2], v) :
        f \in {<<"hero", "psd">>, <<"bg", "tif">>}, v \in 1..MaxWorkVersion }

ScanInit ==
    /\ env = [MODELSHEET_PUB_FILE_IDS |-> <<1>>]
    /\ pubfiles \in [1..1 -> { r \in SourceRecords : r.path # NoPath }]
    /\ playlists = <<>>
    /\ disk \in SUBSET WorkFileUniverse
    /\ pc = "scan"
    /\ Idle
    /\ NoHandler
    /\ NoCall

\* highest_work_version_number = get_next_version_number(tk, work_template,
\* fields), with the fields of the record's local path
ScanWorkFiles ==
    /\ pc = "scan"
    /\ version_number' = get_next_version_number(disk, "work",
                                                 pubfiles[1].path)
    /\ pc' = "scanned"
    /\ UNCHANGED <<env, host_vars, call_vars, handler_vars, registry_vars,
                   disk, open_docs, host_running, engine_vars, exc,
                   request_vars, idx, original_extension, version_name,
                   version_playlists, sg_version, publish_jpg_name, calls>>

ScanNext == ScanWorkFiles

ScanSpec == ScanInit /\ [][ScanNext]_vars

(***************************************************************************)
(* Properties.                                                             *)
(***************************************************************************)
\* the steps of the publish sequence from the resolution of the version
\* number to register_publish: the registry and the work files are then as
\* the resolution found them
BeforeRegister ==
    {"draw_publish", "save_to_path", "thumbnail", "playlists",
     "create_version", "register_publish"}

\* the version numbers that exist for the current record: those of the
\* published files of its task and name, and those of its work files
PublishedVersions ==
    { pubfiles[i].version_number :
        i \in { j \in 1..Len(pubfiles) :
                  /\ pubfiles[j].task = sg_pubfile.task
                  /\ pubfiles[j].name = sg_pubfile.name } }

WorkVersions ==
    { p.version :
        p \in { q \in disk : /\ q.template = "work"
                             /\ q.key = sg_pubfile.path.key
                             /\ q.extension = sg_pubfile.path.extension } }

\* C1: in PublishNewVersion mode the version number of the new publish is one
\* more than the highest version number of the record's published files and
\* work files taken together (1 when there are none), so it is greater than
\* every existing version number of either source.
C1_NextVersionOverBothSources ==
    (mode = 0 /\ pc \in BeforeRegister) =>
        LET existing == PublishedVersions \cup WorkVersions
        IN  /\ version_number =
                 IF existing = {} THEN 1 ELSE Max(existing) + 1
            /\ \A v \in existing : v < version_number

\* a second record of the batch gets its number while the work files hold a
\* higher version than the published files
C1_Witness ==
    /\ mode = 0
    /\ pc = "register_publish"
    /\ idx = 2
    /\ WorkVersions # {}
    /\ Max(WorkVersions) > Max(PublishedVersions)
    /\ version_number = MaxWorkVersion + 1

\* C2: get_next_version_number returns 1 when no path on disk matches the
\* template and the fields other than the version, and otherwise one more
\* than the highest version among the matching paths; it never fills a gap.
C2_NextWorkVersion ==
    pc = "scanned" =>
        LET matching == { p \in disk :
                            /\ p.key = pubfiles[1].path.key
                            /\ p.extension = pubfiles[1].path.extension }
        IN  /\ matching = {} => version_number = 1
            /\ matching # {} =>
                 /\ \E p \in matching : version_number = p.version + 1
                 /\ \A p \in matching : p.version < version_number

\* versions 1 and MaxWorkVersion are on disk, version 2 is not: the scan
\* returns MaxWorkVersion + 1
C2_Witness ==
    /\ pc = "scanned"
    /\ pubfiles[1].path.key = "hero"
    /\ pubfiles[1].path.extension = "psd"
    /\ ApplyFields("work", "hero", "psd", 1) \in disk
    /\ ApplyFields("work", "hero", "psd", 2) \notin disk
    /\ ApplyFields("work", "hero", "psd", MaxWorkVersion) \in disk
    /\ version_number = MaxWorkVersion + 1


\* the open, draw, save and close calls that the Document Editor received,
\* as <<operation, record id>>
EditorCalls ==
    LET made == SelectSeq(calls,
                    LAMBDA c : c.op \in {"open", "draw", "save", "close"})
    IN  [k \in 1..Len(made) |-> <<made[k].op, made[k].doc>>]

\* open, draw, save, close for each record of the list order, one record
\* after the other
RECURSIVE OneByOne(_)
OneByOne(order) ==
    IF order = <<>> THEN <<>>
    ELSE << <<"open", Head(order)>>, <<"draw", Head(order)>>,
            <<"save", Head(order)>>, <<"close", Head(order)>> >>
           \o OneByOne(Tail(order))

\* the file of every queued record exists
AllFilesExist ==
    \A k \in 1..Len(env.MODELSHEET_PUB_FILE_IDS) :
        pubfiles[env.MODELSHEET_PUB_FILE_IDS[k]].path \in disk

\* an export batch over existing files that ended without an exception
ExportBatchDone ==
    /\ pc = "done"
    /\ exc = NoException
    /\ mode = 1
    /\ AllFilesExist

Opened(d) == \E k \in 1..Len(calls) : calls[k].op = "open" /\ calls[k].doc = d
Ran(d, sequence) ==
    \E k \in 1..Len(calls) : calls[k].doc = d /\ calls[k].seq = sequence

\* the iteration of the i-th record of sg_pubfiles has come to its end
IterationOver(i) ==
    \/ i < idx
    \/ i = idx /\ pc \in {"for", "cleanup"}
    \/ i <= idx /\ pc \in {"finally", "done"} /\ exc = NoException

\* the export mode is the value read from the environment at the start
ModeReadOnce == pc # "post_qt_init" => mode = env.MODELSHEET_EXPORT_MODE

DrawSaveCreate ==
    {"draw_export", "draw_publish", "saveAs", "save_to_path",
     "create_version", "register_publish", "register_jpeg"}

\* C5: when a collaborator call raises while a document's banner is drawn,
\* the document is saved or a database record is created, no further document
\* is processed, the error is reported by an alert and a log entry, and the
\* cleanup still runs: Photoshop is quit, the busy state is cleared and
\* _CONTEXT_CHANGES_DISABLED is False again.
C5_CleanupAfterError ==
    (pc = "done" /\ exc.type = "collaborator" /\ exc.at \in DrawSaveCreate) =>
        /\ \A k \in 1..Len(calls) :
             \E i \in 1..idx : calls[k].doc = sg_pubfiles[i]
        /\ alerts >= 1
        /\ logged >= 1
        /\ ~host_running
        /\ ~busy
        /\ ~CONTEXT_CHANGES_DISABLED

\* C6: a queued record without a local path, or whose path is not on disk, is
\* skipped: no collaborator call is made for it, no exception is raised at
\* it, and the loop goes on.
C6_MissingPathSkipped ==
    \A i \in 1..idx :
        LET d == sg_pubfiles[i]
        IN  (pubfiles[d].path = NoPath \/ pubfiles[d].path \notin disk) =>
                /\ \A k \in 1..Len(calls) : calls[k].doc # d
                /\ ~(i = idx /\ exc # NoException)


\* the operations of the publish sequence made for record d, in order; the
\* position of the call of operation op for record d, 0 when there is none
PublishOps(d) ==
    LET made == SelectSeq(calls,
                    LAMBDA c : /\ c.doc = d
                               /\ c.seq = "publish"
                               /\ c.op # "create_playlist")
    IN  [k \in 1..Len(made) |-> made[k].op]

CallAt(d, op) ==
    LET at == { k \in 1..Len(calls) : calls[k].doc = d /\ calls[k].op = op }
    IN  IF at = {} THEN 0 ELSE Max(at)

IsPrefix(a, b) == Len(a) <= Len(b) /\ a = SubSeq(b, 1, Len(a))

RasterPreview == {"jpg", "jpeg", "png"}

\* the order that the publish sequence is to have for record d
PublishOrder(d) ==
    <<"draw", "save", "thumbnail", "create_version", "register_publish">>
    \o (IF pubfiles[d].path.extension \in RasterPreview THEN <<>>
        ELSE <<"export_proxy", "register_proxy">>)
    \o <<"close", "upload">>
    \o (IF copy_version_notes THEN <<"copy_notes">> ELSE <<>>)

\* C7: in PublishNewVersion mode the side effects of a document come in the
\* order draw, save, thumbnail, Version created, PublishedFile registered,
\* (proxy exported and registered), document closed, media uploaded, (notes
\* copied); a PublishedFile is registered with the Version that was created
\* for the same document.
C7_PublishOrder ==
    mode = 0 =>
        /\ \A i \in 1..idx :
             LET d == sg_pubfiles[i]
             IN  /\ IsPrefix(PublishOps(d), PublishOrder(d))
                 /\ (IterationOver(i) /\ Opened(d)) =>
                        PublishOps(d) = PublishOrder(d)
        /\ \A k \in 1..Len(calls) :
             calls[k].op \in {"register_publish", "register_proxy"} =>
                 LET made == CallAt(calls[k].doc, "create_version")
                 IN  /\ made > 0
                     /\ made < k
                     /\ calls[made].ref = calls[k].ref
                     /\ \A j \in 1..Len(calls) :
                          calls[j].op = "create_version" /\ j # made =>
                              calls[j].ref # calls[k].ref

\* a psd went through the whole sequence, proxy and notes included
C7_Witness ==
    /\ mode = 0
    /\ pc = "for"
    /\ idx >= 1
    /\ copy_version_notes
    /\ pubfiles[sg_pubfiles[idx]].path.extension = "psd"
    /\ Len(PublishOps(sg_pubfiles[idx])) = 10

\* C8: in PublishNewVersion mode a JPEG proxy is exported and registered, with
\* the version number and the Version of the document's publish, for every
\* original extension other than jpg, jpeg and png, and for none of these
\* three; either way the document is then closed and its media uploaded.
C8_ProxyUnlessRaster ==
    (mode = 0 /\ pc = "done" /\ exc.type # "collaborator") =>
        \A i \in 1..Len(sg_pubfiles) :
            LET d == sg_pubfiles[i]
                proxied == pubfiles[d].path.extension \notin RasterPreview
            IN  CallAt(d, "register_publish") > 0 =>
                  /\ (CallAt(d, "export_proxy") > 0) = proxied
                  /\ (CallAt(d, "register_proxy") > 0) = proxied
                  /\ proxied =>
                       calls[CallAt(d, "register_proxy")].ref
                         = calls[CallAt(d, "register_publish")].ref
                  /\ CallAt(d, "close") > 0
                  /\ CallAt(d, "upload") > 0

\* the base name has a trailing version token: "_v" and one or more digits
HasVersionToken(base) ==
    LET parts == Split(base, "_")
        last == parts[Len(parts)]
    IN  /\ Len(parts) >= 2
        /\ Len(last) >= 2
        /\ last[1] = "v"
        /\ \A k \in 2..Len(last) : \E n \in 1..10 : last[k] = Digits[n]

\* the publish name without its extension and without its version token
BaseName(publish_name) ==
    LET dot == LastIndexOf(publish_name, ".")
        base == IF dot = 0 THEN publish_name
                ELSE SubSeq(publish_name, 1, dot - 1)
    IN  IF HasVersionToken(base)
        THEN SubSeq(base, 1, LastIndexOf(base, "_") - 1)
        ELSE base

\* the number in at least two digits
TwoDigits(n) == IF n < 10 THEN <<"0">> \o Str(n) ELSE Str(n)

\* C9: the code of the new Version is <base>_v<NN>: NN is the version number
\* in at least two digits, <base> is the publish name without its extension
\* and without its trailing _v## token; a name without such a token keeps its
\* whole base.
C9_VersionCode ==
    \A k \in 1..Len(versions) :
        versions[k].code =
            BaseName(pubfiles[versions[k].source].name)
              \o <<"_", "v">>
              \o TwoDigits(versions[k].sg_path_to_frames.version)

\* C10: policy 0 gives the new Version no playlist, policy 1 the playlists of
\* the prior version, policy 2 the one playlist named new_playlist_name, which
\* is created only when none of that name exists: at most one is created in a
\* batch, and every Version of the batch lists the same playlist.
C10_PlaylistPolicy ==
    LET playlist_name == env.MODELSHEET_NEW_PLAYLIST_NAME
    IN  /\ \A k \in 1..Len(versions) :
             LET v == versions[k]
             IN  /\ version_playlist_mode = 1 =>
                        v.playlists = pubfiles[v.source].playlists
                 /\ version_playlist_mode = 2 =>
                        /\ Len(v.playlists) = 1
                        /\ playlists[v.playlists[1]].code = playlist_name
                        /\ v.playlists = versions[1].playlists
                 /\ version_playlist_mode \notin {1, 2} => v.playlists = <<>>
        /\ Cardinality({ k \in 1..Len(calls) :
                           calls[k].op = "create_playlist" }) <= 1
        /\ Cardinality({ i \in 1..Len(playlists) :
                           playlists[i].code = playlist_name }) <= 1

\* two Versions of one batch list the playlist that the first of them created
C10_Witness ==
    /\ version_playlist_mode = 2
    /\ Len(versions) = 2
    /\ \E k \in 1..Len(calls) : calls[k].op = "create_playlist"
    /\ versions[1].playlists = versions[2].playlists
    /\ Len(playlists) = 2


\* the operations of the export sequence made for record d, in order
ExportOps(d) ==
    LET made == SelectSeq(calls,
                    LAMBDA c : c.doc = d /\ c.seq = "export")
    IN  [k \in 1..Len(made) |-> made[k].op]

\* the order that the export sequence is to have
ExportOrder ==
    <<"draw", "save">>
    \o (IF create_jpeg THEN <<"export_jpeg">> ELSE <<>>)
    \o <<"close">>
    \o (IF open_export_folder THEN <<"reveal">> ELSE <<>>)

\* C11: in ExportToFilesystem mode the steps of a document come in the order
\* banner drawn, document saved under its output name, JPEG exported (exactly
\* when create_jpeg), document closed, destination folder revealed in the
\* file browser of the operating system (exactly when open_export_folder).
C11_ExportOrder ==
    mode = 1 =>
        \A i \in 1..idx :
            LET d == sg_pubfiles[i]
            IN  (IterationOver(i) /\ Opened(d)) => ExportOps(d) = ExportOrder


(***************************************************************************)
(* The engine calls that switch the active document of the host, each      *)
(* examined alone on a host with two open documents: engine.save,          *)
(* engine.save_to_path and model_sheet_layer.model_sheet_layer.            *)
(***************************************************************************)
\* largest number of calls made one after the other on the same host
MaxApplications == 3

\* the variables of the batch, which these calls leave alone
batch_vars == <<env, registry_vars, open_docs, host_running, busy, alerts,
                logged, request_vars, idx, publish_vars, handler_vars>>

\* the id of the document that app.open(model_sheet_image_path_file) opens
LOGO == 3

\* the heights of the two documents when they are opened
DocHeights == <<800, 600>>

\* an open document of the host without a banner, and the logo image
Document(width, height, saved) ==
    [open |-> TRUE, saved |-> saved, width |-> width, height |-> height,
     layers |-> <<"Background">>]

LogoImage ==
    [open |-> FALSE, saved |-> TRUE, width |-> 400, height |-> 200,
     layers |-> <<"Background">>]

\* the calls: save(document), save_to_path(document, path) with the
\* extension of path, and model_sheet_layer(...) on the active document, with
\* or without the file /tmp/sg_modelsheet_images/model_sheet_image.png
EngineCalls ==
    { c \in [op : {"save", "save_to_path", "model_sheet_layer"},
             document : 1..2, extension : {"psd", "psb"}, logo : BOOLEAN] :
        /\ c.op = "save" => c.extension = "psd" /\ ~c.logo
        /\ c.op = "save_to_path" => ~c.logo
        /\ c.op = "model_sheet_layer" =>
             c.extension = "psd" /\ c.document = activeDocument }

EditorInit ==
    /\ env = [MODELSHEET_PUB_FILE_IDS |-> <<>>]
    /\ pubfiles = <<>>
    /\ playlists = <<>>
    /\ disk = {}
    /\ \E w \in {1000, 3000}, s1 \in BOOLEAN, s2 \in BOOLEAN :
         documents = <<Document(w, DocHeights[1], s1),
                       Document(1000, DocHeights[2], s2), LogoImage>>
    /\ activeDocument \in 1..2
    /\ args \in EngineCalls
    /\ locals = <<>>
    /\ result = <<>>
    /\ pc = "call"
    /\ Idle
    /\ NoHandler

\* the call is entered: the document that is active now is noted
Entered == calls' = Append(calls, [op |-> args.op, doc |-> activeDocument,
                                   seq |-> "none", ref |-> 0])

\* the path that save_to_path is given
save_path == ApplyFields("publish", "hero", args.extension, 1)

\* save(document): nothing for a saved document; else, inside
\* context_changes_disabled(), the document is made the active one
save ==
    /\ pc = "call"
    /\ args.op = "save"
    /\ Entered
    /\ IF documents[args.document].saved
       THEN /\ pc' = "returned"
            /\ UNCHANGED <<CONTEXT_CHANGES_DISABLED, locals, activeDocument>>
       ELSE /\ CONTEXT_CHANGES_DISABLED' = TRUE
            /\ locals' = [previous_active_document |-> activeDocument]
            /\ activeDocument' = args.document
            /\ pc' = "document.save"
    /\ UNCHANGED <<batch_vars, disk, exc, documents, args, result>>

\* document.save(), the active document restored, the end of the with block
document_save ==
    /\ pc = "document.save"
    /\ documents' = [documents EXCEPT ![args.document].saved = TRUE]
    /\ activeDocument' = locals.previous_active_document
    /\ CONTEXT_CHANGES_DISABLED' = FALSE
    /\ pc' = "returned"
    /\ UNCHANGED <<batch_vars, disk, exc, calls, args, locals, result>>

\* save_to_path(document, path): inside context_changes_disabled(), the
\* document is made the active one; .psb goes through the adobe bridge
save_to_path ==
    /\ pc = "call"
    /\ args.op = "save_to_path"
    /\ Entered
    /\ CONTEXT_CHANGES_DISABLED' = TRUE
    /\ locals' = [previous_active_document |-> activeDocument]
    /\ activeDocument' = args.document
    /\ pc' = IF args.extension = "psb" THEN "save_as_psb"
             ELSE "document.saveAs"
    /\ UNCHANGED <<batch_vars, disk, exc, documents, args, result>>

\* adobe.save_as_psb(path), the active document restored, return (which
\* ends the with block)
save_as_psb ==
    /\ pc = "save_as_psb"
    /\ disk' = disk \cup {save_path}
    /\ activeDocument' = locals.previous_active_document
    /\ CONTEXT_CHANGES_DISABLED' = FALSE
    /\ pc' = "returned"
    /\ UNCHANGED <<batch_vars, exc, calls, documents, args, locals, result>>

\* document.saveAs(File(path), save_options), the active document restored,
\* the end of the with block
document_saveAs ==
    /\ pc = "document.saveAs"
    /\ disk' = disk \cup {save_path}
    /\ documents' = [documents EXCEPT ![args.document].saved = TRUE]
    /\ activeDocument' = locals.previous_active_document
    /\ CONTEXT_CHANGES_DISABLED' = FALSE
    /\ pc' = "returned"
    /\ UNCHANGED <<batch_vars, exc, calls, args, locals, result>>

\* a banner height that is the aspect of the width without the minimum
_banner_height_aspect_only(_width) == (_width * 8) \div 100

\* _banner_height = int(max(_banner_min_height, _width * _banner_aspect)),
\* with _banner_min_height = 150 and _banner_aspect = 0.08: the maximum is
\* taken first, in hundredths of a pixel, and int() then drops the fraction
_banner_height(_width) == Max({150 * 100, _width * 8}) \div 100

\* _canvas_height = _height + _banner_height
_canvas_height(_width, _height) == _height + _banner_height(_width)

\* app.activeDocument.layers["WBA Model Sheet"] finds a layer (the try
\* block) or raises (the except block)
existing_banner(layers) ==
    \E k \in 1..Len(layers) : layers[k] = "WBA Model Sheet"

\* model_sheet_layer.remove(): the first layer of that name is removed
RemoveLayer(layers, name) ==
    LET k == CHOOSE i \in 1..Len(layers) :
                 layers[i] = name /\ \A j \in 1..(i - 1) : layers[j] # name
    IN  SubSeq(layers, 1, k - 1) \o SubSeq(layers, k + 1, Len(layers))

\* a model_sheet_layer that resizes the canvas whether or not the document
\* carried a banner
ResizesCanvas_always(existing) == TRUE

\* if not existing_banner: resizeCanvas(...)
ResizesCanvas(existing) == ~existing

\* model_sheet_layer(...): the active document is noted, an existing banner
\* is removed
model_sheet_layer ==
    /\ pc = "call"
    /\ args.op = "model_sheet_layer"
    /\ Entered
    /\ LET layers == documents[activeDocument].layers
       IN  /\ locals' = [current_active_document |-> activeDocument,
                         existing_banner |-> existing_banner(layers)]
           /\ documents' =
                IF existing_banner(layers)
                THEN [documents EXCEPT ![activeDocument].layers =
                        RemoveLayer(layers, "WBA Model Sheet")]
                ELSE documents
    /\ pc' = "resizeCanvas"
    /\ UNCHANGED <<batch_vars, disk, exc, CONTEXT_CHANGES_DISABLED,
                   activeDocument, args, result>>

\* changeMode, the background color, resizeCanvas for a document without a
\* banner, the layer set "WBA Model Sheet" and the banner background
resizeCanvas ==
    /\ pc = "resizeCanvas"
    /\ LET doc == documents[activeDocument]
           resized == IF ResizesCanvas(locals.existing_banner)
                      THEN _canvas_height(doc.width, doc.height)
                      ELSE doc.height
       IN  documents' = [documents EXCEPT
                           ![activeDocument].height = resized,
                           ![activeDocument].saved = FALSE,
                           ![activeDocument].layers =
                               <<"WBA Model Sheet">> \o doc.layers]
    /\ pc' = "app.open"
    /\ UNCHANGED <<batch_vars, disk, exc, calls, CONTEXT_CHANGES_DISABLED,
                   activeDocument, args, locals, result>>

\* try: sg_model_sheet_image = app.open(model_sheet_image_path_file)
\* except: sg_model_sheet_image = None; the host makes a document that it
\* opens its active document
app_open ==
    /\ pc = "app.open"
    /\ IF args.logo
       THEN /\ documents' = [documents EXCEPT ![LOGO].open = TRUE]
            /\ activeDocument' = LOGO
            /\ CONTEXT_CHANGES_DISABLED' = TRUE
            /\ pc' = "resizeImage"
       ELSE /\ activeDocument' = locals.current_active_document
            /\ pc' = "text"
            /\ UNCHANGED <<documents, CONTEXT_CHANGES_DISABLED>>
    /\ UNCHANGED <<batch_vars, disk, exc, calls, args, locals, result>>

\* inside context_changes_disabled(): app.activeDocument =
\* sg_model_sheet_image, resizeImage, the layer duplicated into the document,
\* the image closed; then app.activeDocument = current_active_document
resizeImage ==
    /\ pc = "resizeImage"
    /\ documents' = [documents EXCEPT ![LOGO].open = FALSE]
    /\ CONTEXT_CHANGES_DISABLED' = FALSE
    /\ activeDocument' = locals.current_active_document
    /\ pc' = "text"
    /\ UNCHANGED <<batch_vars, disk, exc, calls, args, locals, result>>

\* the text layers, each moved into the layer set, model_sheet_group.merge()
\* and the units and the background color set back
text_layers ==
    /\ pc = "text"
    /\ pc' = "returned"
    /\ UNCHANGED <<batch_vars, disk, exc, calls, CONTEXT_CHANGES_DISABLED,
                   host_vars, call_vars>>

\* the steps at which a call to the host is in flight
CallsHost ==
    pc \in {"document.save", "save_as_psb", "document.saveAs",
            "resizeCanvas", "resizeImage", "text"}

\* the call to the host raises: neither save, save_to_path, model_sheet_layer
\* nor context_changes_disabled() has a finally, so the exception leaves
\* them at once
HostRaises ==
    /\ CallsHost
    /\ pc' = "raised"
    /\ exc' = Raised("collaborator")
    /\ UNCHANGED <<batch_vars, disk, calls, CONTEXT_CHANGES_DISABLED,
                   host_vars, call_vars>>

\* the next call on the same host
NextCall ==
    /\ pc = "returned"
    /\ Len(calls) < MaxApplications
    /\ args' \in EngineCalls
    /\ locals' = <<>>
    /\ pc' = "call"
    /\ UNCHANGED <<batch_vars, disk, exc, calls, CONTEXT_CHANGES_DISABLED,
                   host_vars, result>>

EditorNext ==
    \/ save
    \/ document_save
    \/ save_to_path
    \/ save_as_psb
    \/ document_saveAs
    \/ model_sheet_layer
    \/ resizeCanvas
    \/ app_open
    \/ resizeImage
    \/ text_layers
    \/ HostRaises
    \/ NextCall

EditorSpec == EditorInit /\ [][EditorNext]_vars

\* the document that was active when the last call was entered
ActiveAtEntry == calls[Len(calls)].doc

\* C12: when save, save_to_path or model_sheet_layer is left, by a return or
\* by an exception of a call to the host, the active document of the host is
\* the document that was active at entry, unless that document was closed.
C12_ActiveDocumentRestored ==
    pc \in {"returned", "raised"} =>
        \/ activeDocument = ActiveAtEntry
        \/ ~documents[ActiveAtEntry].open


(***************************************************************************)
(* The helper functions, each examined alone on one set of arguments:      *)
(* _get_version_name_from_filename, _get_output_filename and the banner    *)
(* height and the text blocks of model_sheet_layer.                        *)
(***************************************************************************)
\* longest file name given to _get_version_name_from_filename
MaxNameLen == 4
\* largest document width, in pixels
MaxWidth == 2500

\* Python's None, where a string may stand
None == <<"<None>">>

\* os.sep
os_sep == "/"

\* all strings over the characters chars of length n
RECURSIVE StringsOfLen(_, _)
StringsOfLen(chars, n) ==
    IF n = 0 THEN {<<>>}
    ELSE { <<c>> \o s : c \in chars, s \in StringsOfLen(chars, n - 1) }

\* the file names: every string over a letter, a digit and the dot
FileNames ==
    UNION { StringsOfLen({"a", "1", "."}, n) : n \in 0..MaxNameLen }

\* try: version_name, extension = filename.rsplit('.'); return version_name
\* except: return filename
\* (rsplit without maxsplit splits at every dot, and the assignment to two
\* names raises ValueError unless the list has exactly two items)
_get_version_name_from_filename(filename) ==
    LET rsplit == Split(filename, ".")
    IN  IF Len(rsplit) = 2 THEN rsplit[1] ELSE filename

\* the policy names of the prefix and of the suffix
NONE == <<"N", "o", "n", "e">>
CURRENT_SCENE ==
    <<"C", "u", "r", "r", "e", "n", "t", " ", "S", "c", "e", "n", "e">>
SHIP_EPISODE ==
    <<"S", "h", "i", "p", " ", "E", "p", "i", "s", "o", "d", "e">>
YYYYMMDD == <<"Y", "Y", "Y", "Y", "M", "M", "D", "D">>

\* str(today.strftime('%Y%m%d'))
strftime_Ymd(a_date) ==
    Zfill(Str(a_date.year), 4) \o Zfill(Str(a_date.month), 2)
      \o Zfill(Str(a_date.day), 2)

\* the prefix that is put before the base name, "" for none
ResolvedPrefix(filename_prefix, current_sc, ship_episode) ==
    IF filename_prefix = NONE THEN <<>>
    ELSE IF filename_prefix = CURRENT_SCENE THEN current_sc
    ELSE IF filename_prefix = SHIP_EPISODE THEN ship_episode
    ELSE filename_prefix

\* a suffix that is left out when it is empty, as the prefix is
AppendsSuffix_unless_empty(filename_suffix) ==
    filename_suffix # NONE /\ filename_suffix # <<>>

\* if filename_suffix != 'None': the suffix is appended, empty or not
AppendsSuffix(filename_suffix) == filename_suffix # NONE

\* a split at every dot, as in _get_version_name_from_filename
SplitExtension_unbounded(output_filename) == Split(output_filename, ".")

\* output_filename.rsplit('.', 1)
SplitExtension(output_filename) == RSplit1(output_filename, ".")

\* _get_output_filename(local_path, filename_prefix, filename_suffix,
\* current_sc, ship_episode), today being the date of the import of the
\* module: <<output_filename, extension>>
_get_output_filename(local_path, prefix, suffix, current_sc, ship_ep, today) ==
    LET by_sep == RSplit1(local_path, os_sep)
        output_filename == IF Len(by_sep) = 2 THEN by_sep[2] ELSE local_path
        by_dot == SplitExtension(output_filename)
        extension == IF Len(by_dot) = 2 THEN by_dot[2] ELSE None
        output_basename == IF Len(by_dot) = 2 THEN by_dot[1]
                           ELSE output_filename
        filename_prefix == ResolvedPrefix(prefix, current_sc, ship_ep)
        prefixed == IF filename_prefix # <<>>
                    THEN filename_prefix \o <<"_">> \o output_basename
                    ELSE output_basename
        filename_suffix == IF suffix = YYYYMMDD THEN strftime_Ymd(today)
                           ELSE suffix
        suffixed == IF AppendsSuffix(suffix)
                    THEN prefixed \o <<"_">> \o filename_suffix
                    ELSE prefixed
    IN  IF extension # None
        THEN <<suffixed \o <<".">> \o extension, extension>>
        ELSE <<suffixed, extension>>

\* the text of one field: empty, or some value
Text(value) == {<<>>, value}

\* the separator between the two columns of a line of the main-info text
Gap == [i \in 1..22 |-> " "]
EP == <<"E", "p", ":", " ">>

\* model_sheet_text of text_layer2 ("Model Sheet Info") for project_type
\* '3D': each line ends with "\r"
model_sheet_text_3D(f) ==
    LET CR == <<"\r">>
        line1 == IF f.episode_name = <<>> THEN f.project_name \o CR
                 ELSE f.project_name \o Gap \o EP \o f.episode_name \o CR
        line2 == IF f.task_name # <<>>
                 THEN f.asset_type \o Gap \o f.task_name \o CR
                 ELSE f.asset_type \o CR
        line3 == IF f.asset_name # <<>> THEN f.asset_name \o CR ELSE <<>>
        line4 == IF f.assigned_to # <<>> THEN f.assigned_to \o CR ELSE <<>>
        line5 == IF f.version_name # <<>> THEN f.version_name \o CR ELSE <<>>
    IN  line1 \o line2 \o line3 \o line4 \o line5

\* the labels of text_layer3 ("2D Model Sheet Labels")
EPISODE_LABEL == <<"E", "p", "i", "s", "o", "d", "e", " ", ":", " ">>
SHIP_EPISODE_LABEL == SHIP_EPISODE \o <<" ", ":", " ">>
CURRENT_SCENE_LABEL == CURRENT_SCENE \o <<" ", ":", " ">>
SAP_NUMBER_LABEL ==
    <<"S", "A", "P", " ", "N", "u", "m", "b", "e", "r", " ", ":", " ">>
ASSIGNED_TO_LABEL ==
    <<"A", "s", "s", "i", "g", "n", "e", "d", " ", "T", "o", " ", ":", " ">>

\* a label block that always names the SAP number
model_sheet_label_2D_sap(f) ==
    LET CR == <<"\r">>
    IN  (IF f.episode_name # <<>> THEN EPISODE_LABEL \o CR ELSE <<>>)
        \o (IF f.ship_episode # <<>> THEN SHIP_EPISODE_LABEL \o CR ELSE <<>>)
        \o (IF f.current_sc # <<>> THEN CURRENT_SCENE_LABEL \o CR ELSE <<>>)
        \o SAP_NUMBER_LABEL \o CR
        \o (IF f.assigned_to # <<>> THEN ASSIGNED_TO_LABEL \o CR ELSE <<>>)

\* model_sheet_label of text_layer3 for project_type '2D'
model_sheet_label_2D(f) ==
    LET CR == <<"\r">>
    IN  (IF f.episode_name # <<>> THEN EPISODE_LABEL \o CR ELSE <<>>)
        \o (IF f.ship_episode # <<>> THEN SHIP_EPISODE_LABEL \o CR ELSE <<>>)
        \o (IF f.current_sc # <<>> THEN CURRENT_SCENE_LABEL \o CR ELSE <<>>)
        \o (IF f.sap_number # <<>> THEN SAP_NUMBER_LABEL \o CR ELSE <<>>)
        \o (IF f.assigned_to # <<>> THEN ASSIGNED_TO_LABEL \o CR ELSE <<>>)

\* model_sheet_text of text_layer4 ("2D Model Sheet Info")
model_sheet_text_2D(f) ==
    LET CR == <<"\r">>
    IN  (IF f.episode_name # <<>> THEN f.episode_name \o CR ELSE <<>>)
        \o (IF f.ship_episode # <<>> THEN f.ship_episode \o CR ELSE <<>>)
        \o (IF f.current_sc # <<>> THEN f.current_sc \o CR ELSE <<>>)
        \o (IF f.sap_number # <<>> THEN f.sap_number \o CR ELSE <<>>)
        \o (IF f.assigned_to # <<>> THEN f.assigned_to \o CR ELSE <<>>)

\* the arguments of the calls
LocalPaths ==
    { <<"/", "p", "/", "s", "h", "o", "t", "0", "1", "0", ".", "p", "s", "d">>,
      <<"a", "s", "s", "e", "t", ".", "p", "s", "d">>,
      <<"a", "b", "c", "_", "v", "0", "1", ".", "p", "s", "d">>,
      <<"/", "a", ".", "b", "/", "n", "o", "e", "x", "t">>,
      <<"a", ".", "b", ".", "p", "s", "b">>,
      <<"n", "o", "e", "x", "t">>,
      <<"/", "p", "/", ".", "p", "s", "d">> }

SC010 == <<"S", "C", "0", "1", "0">>
FINAL == <<"f", "i", "n", "a", "l">>

VersionNameCalls ==
    { [op |-> "_get_version_name_from_filename", filename |-> n] :
        n \in FileNames }

OutputFilenameCalls ==
    [op : {"_get_output_filename"},
     local_path : LocalPaths,
     filename_prefix : {NONE, CURRENT_SCENE, SHIP_EPISODE, <<>>,
                        <<"t", "m", "p">>},
     filename_suffix : {NONE, YYYYMMDD, <<>>, FINAL},
     current_sc : Text(SC010),
     ship_episode : Text(<<"E", "1">>),
     today : {[year |-> 2026, month |-> 11, day |-> 3],
              [year |-> 2024, month |-> 1, day |-> 9]}]

BannerCalls == [op : {"_banner_height"}, width : 0..MaxWidth]

TextCalls ==
    [op : {"model_sheet_text"},
     project_type : {"3D", "2D"},
     project_name : {<<"P">>},
     episode_name : Text(<<"1", "0", "1">>),
     asset_type : Text(<<"P", "r", "o", "p">>),
     task_name : Text(<<"A", "r", "t">>),
     asset_name : Text(<<"h", "e", "r", "o">>),
     assigned_to : Text(<<"A", "n", "n">>),
     version_name : Text(<<"h", "e", "r", "o", "_", "v", "0", "1">>),
     ship_episode : Text(<<"E", "1">>),
     current_sc : Text(SC010),
     sap_number : Text(<<"7", "7">>)]

CallInit ==
    /\ env = [MODELSHEET_PUB_FILE_IDS |-> <<>>]
    /\ pubfiles = <<>>
    /\ playlists = <<>>
    /\ disk = {}
    /\ activeDocument = 0
    /\ documents = <<>>
    /\ args \in VersionNameCalls \cup OutputFilenameCalls \cup BannerCalls
                  \cup TextCalls
    /\ locals = <<>>
    /\ result = <<>>
    /\ pc = "call"
    /\ Idle
    /\ NoHandler

\* everything but the returned value and the position
frame_vars == <<batch_vars, disk, exc, calls, CONTEXT_CHANGES_DISABLED,
                host_vars, args, locals>>

Call_get_version_name_from_filename ==
    /\ pc = "call"
    /\ args.op = "_get_version_name_from_filename"
    /\ result' = _get_version_name_from_filename(args.filename)
    /\ pc' = "returned"
    /\ UNCHANGED frame_vars

Call_get_output_filename ==
    /\ pc = "call"
    /\ args.op = "_get_output_filename"
    /\ result' = _get_output_filename(args.local_path, args.filename_prefix,
                                      args.filename_suffix, args.current_sc,
                                      args.ship_episode, args.today)
    /\ pc' = "returned"
    /\ UNCHANGED frame_vars

Call_banner_height ==
    /\ pc = "call"
    /\ args.op = "_banner_height"
    /\ result' = _banner_height(args.width)
    /\ pc' = "returned"
    /\ UNCHANGED frame_vars

\* the text blocks of model_sheet_layer: the main-info text for '3D', the
\* secondary label and info blocks for '2D'
Call_model_sheet_text ==
    /\ pc = "call"
    /\ args.op = "model_sheet_text"
    /\ result' = IF args.project_type = "3D"
                 THEN [model_sheet_text |-> model_sheet_text_3D(args)]
                 ELSE [model_sheet_label |-> model_sheet_label_2D(args),
                       model_sheet_text |-> model_sheet_text_2D(args)]
    /\ pc' = "returned"
    /\ UNCHANGED frame_vars

CallNext ==
    \/ Call_get_version_name_from_filename
    \/ Call_get_output_filename
    \/ Call_banner_height
    \/ Call_model_sheet_text

CallSpec == CallInit /\ [][CallNext]_vars

\* the call of the helper named op has returned
Returned(op) == pc = "returned" /\ args.op = op

\* C13: _get_version_name_from_filename returns the text before the last dot
\* of a file name that has a dot, also when it has several dots, and the file
\* name unchanged when it has none.
C13_VersionNameFromFilename ==
    Returned("_get_version_name_from_filename") =>
        result = RSplit1(args.filename, ".")[1]

\* the file name of a path: the text after the last separator
FileNameOf(local_path) ==
    SubSeq(local_path, LastIndexOf(local_path, os_sep) + 1, Len(local_path))

\* the text before the last dot of a file name, all of it without a dot; the
\* text after the last dot
BaseOf(name) ==
    IF LastIndexOf(name, ".") = 0 THEN name
    ELSE SubSeq(name, 1, LastIndexOf(name, ".") - 1)
ExtensionOf(name) == SubSeq(name, LastIndexOf(name, ".") + 1, Len(name))

\* the prefix and the suffix that the policies of the call stand for
PrefixOf(a) ==
    IF a.filename_prefix = NONE THEN <<>>
    ELSE IF a.filename_prefix = CURRENT_SCENE THEN a.current_sc
    ELSE IF a.filename_prefix = SHIP_EPISODE THEN a.ship_episode
    ELSE a.filename_prefix
SuffixOf(a) ==
    IF a.filename_suffix = YYYYMMDD
    THEN Str(a.today.year) \o TwoDigits(a.today.month)
           \o TwoDigits(a.today.day)
    ELSE a.filename_suffix

\* C14: the output name is [prefix "_"] base ["_" suffix] [. extension]: no
\* prefix for policy None or an empty resolved prefix; current_sc for
\* 'Current Scene', ship_episode for 'Ship Episode', else the literal string;
\* no suffix for policy None, else "_" and the date as YYYYMMDD or the literal
\* string, also when that string is empty.
C14_OutputBaseName ==
    Returned("_get_output_filename") =>
        LET name == FileNameOf(args.local_path)
        IN  result[1] =
              (IF PrefixOf(args) = <<>> THEN <<>>
               ELSE PrefixOf(args) \o <<"_">>)
              \o BaseOf(name)
              \o (IF args.filename_suffix = NONE THEN <<>>
                  ELSE <<"_">> \o SuffixOf(args))
              \o (IF LastIndexOf(name, ".") = 0 THEN <<>>
                  ELSE <<".">> \o ExtensionOf(name))

\* "asset.psd" with prefix Current Scene = "SC010" and an empty suffix
\* gives "SC010_asset_.psd"
C14_Witness ==
    /\ Returned("_get_output_filename")
    /\ args.local_path = <<"a", "s", "s", "e", "t", ".", "p", "s", "d">>
    /\ args.filename_prefix = CURRENT_SCENE
    /\ args.current_sc = SC010
    /\ args.filename_suffix = <<>>
    /\ result[1] = SC010 \o <<"_", "a", "s", "s", "e", "t", "_", ".", "p",
                              "s", "d">>

\* the number of dots of a string
Dots(s) == Cardinality({ k \in 1..Len(s) : s[k] = "." })

\* C15: the returned extension is the text after the last dot of the source
\* file name, None without a dot; the returned name ends with "." and that
\* extension exactly when there is one, and else has no dot; with prefix None
\* and suffix None the returned name is the source file name.
C15_ExtensionPreserved ==
    Returned("_get_output_filename") =>
        LET name == FileNameOf(args.local_path)
            dotted == LastIndexOf(name, ".") # 0
            tail == <<".">> \o ExtensionOf(name)
        IN  /\ result[2] = IF dotted THEN ExtensionOf(name) ELSE None
            /\ dotted =>
                  /\ Len(result[1]) >= Len(tail)
                  /\ SubSeq(result[1], Len(result[1]) - Len(tail) + 1,
                            Len(result[1])) = tail
            /\ ~dotted => Dots(result[1]) = 0
            /\ (args.filename_prefix = NONE /\ args.filename_suffix = NONE)
                  => result[1] = name

\* "/p/shot010.psd" with prefix None and suffix None gives
\* ("shot010.psd", "psd")
C15_Witness ==
    /\ Returned("_get_output_filename")
    /\ args.filename_prefix = NONE
    /\ args.filename_suffix = NONE
    /\ result = << <<"s", "h", "o", "t", "0", "1", "0", ".", "p", "s", "d">>,
                   <<"p", "s", "d">> >>

\* the number of times model_sheet_layer was applied to document d
Applications(d) ==
    Cardinality({ k \in 1..Len(calls) :
                    calls[k].op = "model_sheet_layer" /\ calls[k].doc = d })

\* the number of layers of document d that are named name
LayersNamed(d, name) ==
    Cardinality({ k \in 1..Len(documents[d].layers) :
                    documents[d].layers[k] = name })

\* C16: after any number n >= 1 of applications of model_sheet_layer to a
\* document, its canvas height is the original height plus the banner height
\* (the first application resizes the canvas, a later one removes the old
\* banner and does not resize) and it has exactly one "WBA Model Sheet" layer.
C16_BannerAppliedOnce ==
    pc = "returned" =>
        \A d \in 1..2 :
            Applications(d) >= 1 =>
                /\ documents[d].height =
                     DocHeights[d]
                       + Max({150, (8 * documents[d].width) \div 100})
                /\ LayersNamed(d, "WBA Model Sheet") = 1

\* model_sheet_layer has been applied three times to the document of width
\* 3000, whose banner is 240 pixels high
C16_Witness ==
    /\ pc = "returned"
    /\ Applications(1) = MaxApplications
    /\ documents[1].width = 3000
    /\ documents[1].height = DocHeights[1] + 240
    /\ LayersNamed(1, "WBA Model Sheet") = 1

\* C17: for every document width w >= 0 the banner height is
\* max(150, (8 * w) div 100), and it does not decrease when w grows.
C17_BannerHeight ==
    Returned("_banner_height") =>
        /\ result = Max({150, (8 * args.width) \div 100})
        /\ args.width > 0 => _banner_height(args.width - 1) <= result

\* a width past the minimum: 8 percent of 1888 pixels is 151.04
C17_Witness ==
    /\ Returned("_banner_height")
    /\ args.width = 1888
    /\ result = 151
    /\ _banner_height(1874) = 150

\* the lines of a text block in which every line ends with "\r"
Lines(text) == Pop(Split(text, "\r"))

\* the string has sub as a substring
Contains(s, sub) ==
    \E k \in 1..(Len(s) - Len(sub) + 1) :
        SubSeq(s, k, k + Len(sub) - 1) = sub

\* the line has nothing but spaces
Blank(line) == \A k \in 1..Len(line) : line[k] = " "

\* 1 for a present value, 0 for an absent one
Present(value) == IF value # <<>> THEN 1 ELSE 0

\* C18: in 3D mode the main-info text has one line for each present value
\* (project and episode, asset type and task, asset name, assigned-to,
\* version name), a line without a value is left out, so that no line is
\* blank; the first line has "Ep: <episode>" exactly when the episode is not
\* empty.
C18_MainInfoLines ==
    (Returned("model_sheet_text") /\ args.project_type = "3D") =>
        LET lines == Lines(result.model_sheet_text)
        IN  /\ \A k \in 1..Len(lines) : ~Blank(lines[k])
            /\ Len(lines) =
                  1 + Present(args.asset_type \o args.task_name)
                    + Present(args.asset_name) + Present(args.assigned_to)
                    + Present(args.version_name)
            /\ Contains(lines[1], EP \o args.episode_name)
                  = (args.episode_name # <<>>)
            /\ Contains(lines[1], <<"E", "p", ":">>)
                  = (args.episode_name # <<>>)

\* the fields of the secondary blocks, in their order, and their labels
SecondaryFields ==
    <<"episode_name", "ship_episode", "current_sc", "sap_number",
      "assigned_to">>
LabelOf ==
    [episode_name |-> EPISODE_LABEL, ship_episode |-> SHIP_EPISODE_LABEL,
     current_sc |-> CURRENT_SCENE_LABEL, sap_number |-> SAP_NUMBER_LABEL,
     assigned_to |-> ASSIGNED_TO_LABEL]

\* C19: in 2D mode the secondary label block and the secondary info block
\* have the same number of lines, and the i-th label names the field whose
\* value is the i-th info line: the fields with a value, in the order
\* episode, ship episode, current scene, SAP number, assigned-to.
C19_SecondaryBlocksAligned ==
    (Returned("model_sheet_text") /\ args.project_type = "2D") =>
        LET labels == Lines(result.model_sheet_label)
            infos == Lines(result.model_sheet_text)
            present == SelectSeq(SecondaryFields,
                                 LAMBDA f : args[f] # <<>>)
        IN  /\ Len(labels) = Len(infos)
            /\ Len(labels) = Len(present)
            /\ \A k \in 1..Len(present) :
                  /\ labels[k] = LabelOf[present[k]]
                  /\ infos[k] = args[present[k]]

\* episode, current scene and assigned-to have a value, ship episode and SAP
\* number have none: three lines in each block
C19_Witness ==
    /\ Returned("model_sheet_text")
    /\ args.project_type = "2D"
    /\ args.ship_episode = <<>>
    /\ args.sap_number = <<>>
    /\ Lines(result.model_sheet_label)
         = <<EPISODE_LABEL, CURRENT_SCENE_LABEL, ASSIGNED_TO_LABEL>>
    /\ Lines(result.model_sheet_text)
         = <<args.episode_name, args.current_sc, args.assigned_to>>
    /\ Len(args.episode_name) > 0

\* the last call went through a context_changes_disabled() scope
ScopeEntered ==
    \/ locals # <<>> /\ "previous_active_document" \in DOMAIN locals
    \/ args.op = "model_sheet_layer" /\ args.logo /\ exc.at # "resizeCanvas"

\* C20: when a context_changes_disabled() scope has been left, whether its
\* body returned or raised, _CONTEXT_CHANGES_DISABLED is False.
C20_ContextChangesEnabledAgain ==
    (pc \in {"returned", "raised"} /\ ScopeEntered) =>
        ~CONTEXT_CHANGES_DISABLED


(***************************************************************************)
(* The event handlers of the engine: the heartbeat timer                   *)
(* (_check_connection), _handle_active_document_change, _handle_command,   *)
(* the context cache and post_app_init.                                    *)
(***************************************************************************)
\* largest number of pings sent to the host
MaxPings == 3

\* the default of SHOTGUN_ADOBE_HEARTBEAT_TOLERANCE
SHOTGUN_ADOBE_HEARTBEAT_TOLERANCE == 2

\* sgtk.Context objects: the project entity ("" for none) and the task
Contexts == {[project |-> "P", task |-> "t1"],
             [project |-> "P", task |-> "t2"],
             [project |-> "", task |-> ""]}

\* Python's None where a Context is expected
NoContext == [project |-> "<None>", task |-> "<None>"]

\* the tolerance: the integer 2 by default, a string when it is read from
\* the environment
Tolerances == {[type |-> "int", value |-> SHOTGUN_ADOBE_HEARTBEAT_TOLERANCE],
               [type |-> "str", value |-> SHOTGUN_ADOBE_HEARTBEAT_TOLERANCE]}

\* sgtk.Context(tk=self.context.sgtk, project=self.context.project)
ProjectContext(context) == [project |-> context.project, task |-> ""]

\* context.serialize() and sgtk.Context.deserialize(value)
serialize(context) == <<"sgtk.Context", context.project, context.task>>
deserialize(value) == [project |-> value[2], task |-> value[3]]

\* the document paths of the events: "" for an unsaved document
DocumentPaths == {"", "a.psd", "b.psd"}

\* the class attributes of PhotoshopCCEngine, and the attributes that
\* pre_app_init sets
ClassAttributes ==
    [_COMMAND_UID_COUNTER |-> 0,
     _FAILED_PINGS |-> 0,
     _CONTEXT_CACHE |-> <<>>,
     _HEARTBEAT_DISABLED |-> FALSE,
     _PROJECT_CONTEXT |-> NoContext,
     _HAS_CHECKED_CONTEXT_POST_LAUNCH |-> FALSE]

\* serial_cache: serial_cache[k] = v.serialize() for every item of the cache
serial_cache(cache) == [k \in DOMAIN cache |-> serialize(cache[k])]

\* add_to_context_cache(path, context) of the engine e with the settings s:
\* the engine and the settings after the call
add_to_context_cache(e, s, path, context) ==
    IF path \notin DOMAIN e._CONTEXT_CACHE
    THEN LET cache == (path :> context) @@ e._CONTEXT_CACHE
         IN  [engine |-> [e EXCEPT !._CONTEXT_CACHE = cache],
              settings |-> [s EXCEPT !.SCOPE_PROJECT = serial_cache(cache)]]
    ELSE [engine |-> e, settings |-> s]

\* sgtk_from_path(path).context_from_path(path, previous_context): the
\* context of a path under the storage roots, NoContext when it raises because
\* the path is outside of them
context_from_path(path) ==
    IF path = "a.psd" THEN [project |-> "P", task |-> "t2"] ELSE NoContext

\* sgtk.platform.change_context(context): the engine is kept
\* (context_change_allowed is True) and its context replaced
change_context(e, context) == [e EXCEPT !.context = context]

\* the two early returns inside heartbeat_disabled(): context changes are
\* disabled, or the path is empty
ReturnsAtOnce_unsaved_only(disabled, path) == path = ""

ReturnsAtOnce(disabled, path) == disabled \/ path = ""

\* the outcome of _handle_active_document_change(active_document_path) on
\* the engine e with the settings s: the engine and the settings after it,
\* the value returned ("raised" when change_context raises) and the context
\* given to change_context.  disabled is _CONTEXT_CHANGES_DISABLED, raises
\* tells whether change_context raises.
ChangeOutcome(e, s, returned, changed_to) ==
    [engine |-> e, settings |-> s, returned |-> returned,
     changed_to |-> changed_to]

_handle_active_document_change(e, s, disabled, path, raises) ==
    IF ~e.automatic_context_switch THEN ChangeOutcome(e, s, "None", NoContext)
    ELSE
      LET entered == [e EXCEPT !._HEARTBEAT_DISABLED = TRUE]
          cached == path \in DOMAIN e._CONTEXT_CACHE
          found == context_from_path(path)
          added == add_to_context_cache(entered, s, path, found)
          fallback ==
              [entered EXCEPT
                 !._PROJECT_CONTEXT =
                     IF @ = NoContext THEN ProjectContext(e.context) ELSE @]
          resolved == IF cached \/ found = NoContext THEN s ELSE added.settings
          after == IF cached THEN entered
                   ELSE IF found = NoContext THEN fallback ELSE added.engine
          context == IF cached THEN e._CONTEXT_CACHE[path]
                     ELSE IF found = NoContext THEN fallback._PROJECT_CONTEXT
                     ELSE found
          exit(x) == [x EXCEPT !._HEARTBEAT_DISABLED = FALSE]
      IN  IF ReturnsAtOnce(disabled, path)
          THEN ChangeOutcome(exit(entered), s, "False", NoContext)
          ELSE IF context.project = "" \/ context = e.context
          THEN ChangeOutcome(exit(after), resolved, "False", NoContext)
          ELSE IF raises
          THEN ChangeOutcome(after, resolved, "raised", context)
          ELSE ChangeOutcome(exit(change_context(after, context)),
                             resolved, "True", context)

\* the variables that the event handlers leave alone
unhandled_vars == <<env, registry_vars, open_docs, host_running, busy, alerts,
                    logged, request_vars, idx, publish_vars, disk, exc,
                    host_vars, locals, app>>

\* the engine after pre_app_init, its timer started
Engines ==
    { ClassAttributes @@
        [context |-> [project |-> "P", task |-> "t1"],
         automatic_context_switch |-> a,
         SHOTGUN_ADOBE_HEARTBEAT_TOLERANCE |-> t] :
      a \in BOOLEAN, t \in Tolerances }

HeartbeatInit ==
    /\ env = [MODELSHEET_PUB_FILE_IDS |-> <<>>]
    /\ pubfiles = <<>>
    /\ playlists = <<>>
    /\ disk = {}
    /\ Idle
    /\ activeDocument = 0
    /\ documents = <<>>
    /\ args = [op |-> "post_app_init"]
    /\ locals = <<>>
    /\ result = "None"
    /\ app = <<>>
    /\ engine \in Engines
    /\ settings = [SCOPE_PROJECT |-> <<>>, SCOPE_GLOBAL |-> <<>>]
    /\ pc = "idle"

\* the pings sent so far
Pings == { i \in 1..Len(calls) : calls[i].op = "ping" }

\* the comparison with the tolerance raises TypeError when the tolerance was
\* read from the environment, a string
ToleranceIsString(e) == e.SHOTGUN_ADOBE_HEARTBEAT_TOLERANCE.type = "str"

\* self._FAILED_PINGS >= self.SHOTGUN_ADOBE_HEARTBEAT_TOLERANCE
ToleranceReached_at_once(e) == TRUE

ToleranceReached(e) ==
    e._FAILED_PINGS >= e.SHOTGUN_ADOBE_HEARTBEAT_TOLERANCE.value

\* the one-time check of _check_connection on the engine e: current tells
\* whether sgtk.platform.current_engine() is set, path is what
\* get_active_document_path() returns
PostLaunchCheck(e, s, disabled, current, path, raises) ==
    IF e._HAS_CHECKED_CONTEXT_POST_LAUNCH \/ ~current
    THEN ChangeOutcome(e, s, "None", NoContext)
    ELSE LET handled == IF path # ""
                        THEN _handle_active_document_change(
                                 e, s, disabled, path, raises)
                        ELSE ChangeOutcome(e, s, "None", NoContext)
             checked == [handled.engine EXCEPT
                           !._HAS_CHECKED_CONTEXT_POST_LAUNCH = TRUE]
         IN  IF handled.returned = "raised" THEN handled
             ELSE [handled EXCEPT !.engine = checked, !.returned = "None"]

\* a tick of the heartbeat timer
_check_connection ==
    /\ pc \in {"idle", "callback"}
    /\ args' = [op |-> "_check_connection"]
    /\ IF engine._HEARTBEAT_DISABLED
       THEN /\ result' = "None"
            /\ UNCHANGED <<engine, settings, calls, pc>>
       ELSE /\ Cardinality(Pings) < MaxPings
            /\ \E ok \in BOOLEAN, current \in BOOLEAN, path \in DocumentPaths,
                  raises \in BOOLEAN :
                 LET ping == [op |-> "ping", ok |-> ok]
                     typed == ~ToleranceIsString(engine)
                     quits == ~ok /\ typed /\ ToleranceReached(engine)
                     pinged ==
                         [engine EXCEPT !._FAILED_PINGS =
                            IF ok THEN 0 ELSE IF quits THEN @ ELSE @ + 1]
                     checked == PostLaunchCheck(
                                    pinged, settings,
                                    CONTEXT_CHANGES_DISABLED, current, path,
                                    raises)
                 IN  IF ~ok /\ ~typed
                     THEN /\ calls' = Append(calls, ping)
                          /\ result' = "raised"
                          /\ UNCHANGED <<engine, settings, pc>>
                     ELSE /\ calls' = IF quits
                                      THEN calls \o <<ping, [op |-> "quit"]>>
                                      ELSE Append(calls, ping)
                          /\ engine' = checked.engine
                          /\ settings' = checked.settings
                          /\ result' = checked.returned
                          /\ pc' = IF quits THEN "quit" ELSE pc
    /\ UNCHANGED <<unhandled_vars, CONTEXT_CHANGES_DISABLED>>

\* the host reports that another document became the active one
active_document_changed ==
    /\ pc \in {"idle", "callback"}
    /\ \E path \in DocumentPaths, raises \in BOOLEAN :
         LET handled == _handle_active_document_change(
                            engine, settings, CONTEXT_CHANGES_DISABLED, path,
                            raises)
         IN  /\ args' = [op |-> "_handle_active_document_change",
                         path |-> path]
             /\ engine' = handled.engine
             /\ settings' = handled.settings
             /\ result' = handled.returned
    /\ UNCHANGED <<unhandled_vars, CONTEXT_CHANGES_DISABLED, calls, pc>>

\* _handle_command(uid) enters heartbeat_disabled() and starts the callback
_handle_command ==
    /\ pc = "idle"
    /\ pc' = "callback"
    /\ args' = [op |-> "_handle_command"]
    /\ result' = "running"
    /\ engine' = [engine EXCEPT !._HEARTBEAT_DISABLED = TRUE]
    /\ UNCHANGED <<unhandled_vars, CONTEXT_CHANGES_DISABLED, calls, settings>>

\* the callback returns: the code after the yield of heartbeat_disabled runs
CallbackReturns ==
    /\ pc = "callback"
    /\ pc' = "idle"
    /\ result' = "None"
    /\ engine' = [engine EXCEPT !._HEARTBEAT_DISABLED = FALSE]
    /\ UNCHANGED <<unhandled_vars, CONTEXT_CHANGES_DISABLED, calls, settings,
                   args>>

\* the callback raises: heartbeat_disabled has no try/finally, the code
\* after its yield does not run
CallbackRaises ==
    /\ pc = "callback"
    /\ pc' = "idle"
    /\ result' = "raised"
    /\ UNCHANGED <<unhandled_vars, CONTEXT_CHANGES_DISABLED, calls, settings,
                   args, engine>>

\* an app enters or leaves context_changes_disabled()
context_changes_disabled ==
    /\ pc \in {"idle", "callback"}
    /\ CONTEXT_CHANGES_DISABLED' = ~CONTEXT_CHANGES_DISABLED
    /\ UNCHANGED <<unhandled_vars, calls, settings, args, result, engine, pc>>

HeartbeatNext ==
    \/ _check_connection
    \/ active_document_changed
    \/ _handle_command
    \/ CallbackReturns
    \/ CallbackRaises
    \/ context_changes_disabled

HeartbeatSpec == HeartbeatInit /\ [][HeartbeatNext]_vars


\* C21: when no event is being handled (_handle_command and
\* _handle_active_document_change have finished, by a return or by a raise),
\* _HEARTBEAT_DISABLED is False, so that the next tick pings the host.
C21_HeartbeatEnabledAgain ==
    pc = "idle" => ~engine._HEARTBEAT_DISABLED


(***************************************************************************)
(* engine.export_as_jpeg(document, output_path, max_size, quality) on a    *)
(* host, one call of the host at a time.                                   *)
(***************************************************************************)
\* the default of max_size
MaxSize == 2048

\* the documents of the host when export_as_jpeg is called: width 0 stands
\* for a width that is not a whole number of pixels
SourceDocuments ==
    { [Document(w, DocHeights[1], s) EXCEPT
         !.layers = <<"Background", "Layer 1">>] :
      w \in {0, 1000, 3000}, s \in BOOLEAN }

\* adobe.app.preferences.rulerUnits and adobe.app.displayDialogs
Preferences == [rulerUnits : {"INCHES", "PIXELS"},
                displayDialogs : {"ALL", "NO"}]

\* jpeg_pub_path: output_path, or a file in tempfile.gettempdir()
jpeg_pub_path == <<"jpeg_pub_path">>

\* the variables that export_as_jpeg leaves alone
unexported_vars == <<env, registry_vars, open_docs, host_running, busy,
                     alerts, logged, request_vars, idx, publish_vars, engine,
                     settings>>

JpegInit ==
    /\ env = [MODELSHEET_PUB_FILE_IDS |-> <<>>]
    /\ pubfiles = <<>>
    /\ playlists = <<>>
    /\ disk = {}
    /\ Idle
    /\ engine = <<>>
    /\ settings = <<>>
    /\ app \in Preferences
    /\ \E d \in SourceDocuments : documents = <<d>>
    /\ activeDocument \in 0..1
    /\ args \in [op : {"export_as_jpeg"}, document : 0..1]
    /\ locals = <<>>
    /\ result = <<>>
    /\ pc = "call"

\* jpeg_width (and jpeg_height): 0 unless the document is larger than
\* max_size, else the size scaled by max_size / max_sz
jpeg_size(size, max_sz) ==
    LET scaled == (size * MaxSize) \div max_sz
    IN  IF max_sz > MaxSize
        THEN Max({IF scaled < size THEN scaled ELSE size, 1})
        ELSE 0

\* the two preferences are read, context_changes_disabled() is entered
export_as_jpeg ==
    /\ pc = "call"
    /\ locals' = [original_ruler_units |-> app.rulerUnits,
                  original_dialog_mode |-> app.displayDialogs,
                  active_doc |-> 0, jpeg_doc |-> 0,
                  jpeg_width |-> 0, jpeg_height |-> 0]
    /\ CONTEXT_CHANGES_DISABLED' = TRUE
    /\ pc' = "rulerUnits"
    /\ UNCHANGED <<unexported_vars, disk, exc, calls, host_vars, app, args,
                   result>>

\* adobe.app.preferences.rulerUnits = adobe.Units.PIXELS
set_rulerUnits ==
    /\ pc = "rulerUnits"
    /\ app' = [app EXCEPT !.rulerUnits = "PIXELS"]
    /\ pc' = "displayDialogs"
    /\ UNCHANGED <<unexported_vars, disk, exc, calls, host_vars, args, locals,
                   result, CONTEXT_CHANGES_DISABLED>>

\* adobe.app.displayDialogs = adobe.DialogModes.NO
set_displayDialogs ==
    /\ pc = "displayDialogs"
    /\ app' = [app EXCEPT !.displayDialogs = "NO"]
    /\ pc' = "active_doc"
    /\ UNCHANGED <<unexported_vars, disk, exc, calls, host_vars, args, locals,
                   result, CONTEXT_CHANGES_DISABLED>>

\* active_doc = document or adobe.app.activeDocument, its name and its
\* size; RuntimeError without a document or without a size
get_active_doc ==
    /\ pc = "active_doc"
    /\ LET active_doc == IF args.document # 0 THEN args.document
                         ELSE activeDocument
           doc_width == documents[active_doc].width
           doc_height == documents[active_doc].height
           max_sz == Max({doc_width, doc_height})
       IN  IF active_doc = 0
           THEN /\ exc' = Raised("RuntimeError")
                /\ pc' = "finally"
                /\ UNCHANGED locals
           ELSE IF doc_width # 0 /\ doc_height # 0
           THEN /\ locals' = [locals EXCEPT
                                !.active_doc = active_doc,
                                !.jpeg_width = jpeg_size(doc_width, max_sz),
                                !.jpeg_height = jpeg_size(doc_height, max_sz)]
                /\ pc' = "duplicate"
                /\ UNCHANGED exc
           ELSE /\ exc' = Raised("RuntimeError")
                /\ pc' = "finally"
                /\ locals' = [locals EXCEPT !.active_doc = active_doc]
    /\ UNCHANGED <<unexported_vars, disk, calls, host_vars, app, args, result,
                   CONTEXT_CHANGES_DISABLED>>

\* jpeg_doc = active_doc.duplicate(jpeg_name): the duplicate is the active
\* document
duplicate ==
    /\ pc = "duplicate"
    /\ documents' = Append(documents,
                           [documents[locals.active_doc] EXCEPT
                              !.saved = FALSE])
    /\ activeDocument' = Len(documents) + 1
    /\ locals' = [locals EXCEPT !.jpeg_doc = Len(documents) + 1]
    /\ calls' = Append(calls, [op |-> "duplicate",
                               previous |-> activeDocument])
    /\ pc' = "flatten"
    /\ UNCHANGED <<unexported_vars, disk, exc, app, args, result,
                   CONTEXT_CHANGES_DISABLED>>

\* jpeg_doc.flatten() and jpeg_doc.bitsPerChannel = EIGHT
flatten ==
    /\ pc = "flatten"
    /\ documents' = [documents EXCEPT
                       ![locals.jpeg_doc].layers = <<"Background">>]
    /\ pc' = "resizeImage"
    /\ UNCHANGED <<unexported_vars, disk, exc, calls, activeDocument, app,
                   args, locals, result, CONTEXT_CHANGES_DISABLED>>

\* jpeg_doc.resizeImage(jpeg_width, jpeg_height) if jpeg_width and
\* jpeg_height
jpeg_resizeImage ==
    /\ pc = "resizeImage"
    /\ documents' =
         IF locals.jpeg_width # 0 /\ locals.jpeg_height # 0
         THEN [documents EXCEPT
                 ![locals.jpeg_doc].width = locals.jpeg_width,
                 ![locals.jpeg_doc].height = locals.jpeg_height]
         ELSE documents
    /\ pc' = "saveAs"
    /\ UNCHANGED <<unexported_vars, disk, exc, calls, activeDocument, app,
                   args, locals, result, CONTEXT_CHANGES_DISABLED>>

\* jpeg_doc.saveAs(jpeg_file, jpeg_options, True): a copy is written
jpeg_saveAs ==
    /\ pc = "saveAs"
    /\ disk' = disk \cup {jpeg_pub_path}
    /\ pc' = "close"
    /\ UNCHANGED <<unexported_vars, exc, calls, host_vars, app, args, locals,
                   result, CONTEXT_CHANGES_DISABLED>>

\* a call to the host raises: before the duplicate exists the outer finally
\* is next, after it the inner one
JpegHostRaises ==
    /\ pc \in {"rulerUnits", "displayDialogs", "active_doc", "duplicate",
               "flatten", "resizeImage", "saveAs"}
    /\ exc' = Raised("collaborator")
    /\ pc' = IF pc \in {"flatten", "resizeImage", "saveAs"} THEN "close"
             ELSE "finally"
    /\ UNCHANGED <<unexported_vars, disk, calls, host_vars, app, args, locals,
                   result, CONTEXT_CHANGES_DISABLED>>

\* the inner finally: jpeg_doc.close(save_options), DONOTSAVECHANGES; the
\* document that was active before the duplicate is the active one again
jpeg_close ==
    /\ pc = "close"
    /\ documents' = [documents EXCEPT ![locals.jpeg_doc].open = FALSE]
    /\ activeDocument' = calls[Len(calls)].previous
    /\ calls' = Append(calls, [op |-> "close", previous |-> activeDocument])
    /\ pc' = "finally"
    /\ UNCHANGED <<unexported_vars, disk, exc, app, args, locals, result,
                   CONTEXT_CHANGES_DISABLED>>

\* the outer finally: the two preferences are set back
RestoredPreferences_on_return(a) ==
    IF exc = NoException
    THEN [a EXCEPT !.rulerUnits = locals.original_ruler_units,
                   !.displayDialogs = locals.original_dialog_mode]
    ELSE a

RestoredPreferences(a) ==
    [a EXCEPT !.rulerUnits = locals.original_ruler_units,
              !.displayDialogs = locals.original_dialog_mode]

\* the outer finally, then the end of the with block (its code after the
\* yield runs on a return only) and return jpeg_pub_path
jpeg_finally ==
    /\ pc = "finally"
    /\ app' = RestoredPreferences(app)
    /\ IF exc = NoException
       THEN /\ CONTEXT_CHANGES_DISABLED' = FALSE
            /\ result' = jpeg_pub_path
            /\ pc' = "returned"
       ELSE /\ pc' = "raised"
            /\ UNCHANGED <<CONTEXT_CHANGES_DISABLED, result>>
    /\ UNCHANGED <<unexported_vars, disk, exc, calls, host_vars, args, locals>>

JpegNext ==
    \/ export_as_jpeg
    \/ set_rulerUnits
    \/ set_displayDialogs
    \/ get_active_doc
    \/ duplicate
    \/ flatten
    \/ jpeg_resizeImage
    \/ jpeg_saveAs
    \/ JpegHostRaises
    \/ jpeg_close
    \/ jpeg_finally

JpegSpec == JpegInit /\ [][JpegNext]_vars

MaxVersionFiles == 4

\* the path of version v of the work file of the document; version 0 is the
\* path without a version number
DocumentPath(v) == ApplyFields("work", "doc", "psd", v)

\* _get_next_version_info(path, item) of the base plugin: the path of the
\* next version and that version, or (None, None) for a path without a
\* version number
_get_next_version_info(path) ==
    IF path.version = 0
    THEN [next_version_path |-> NoPath, version |-> 0]
    ELSE [next_version_path |->
              ApplyFields(path.template, path.key, path.extension,
                          path.version + 1),
          version |-> path.version + 1]

\* the condition of the while loop: os.path.exists(next_version_path)
SearchesOn_never(next_version_path) == FALSE

SearchesOn(next_version_path) == next_version_path \in disk

\* the variables that validate leaves alone
unvalidated_vars == <<env, registry_vars, open_docs, host_running, busy,
                      alerts, logged, request_vars, idx, publish_vars,
                      handler_vars, host_vars, CONTEXT_CHANGES_DISABLED>>

\* the document is unsaved (path ""), or saved under a path with or without
\* a version number; some versions of the work file exist on disk
ValidateInit ==
    /\ env = [MODELSHEET_PUB_FILE_IDS |-> <<>>]
    /\ pubfiles = <<>>
    /\ playlists = <<>>
    /\ Idle
    /\ NoHandler
    /\ activeDocument = 0
    /\ documents = <<>>
    /\ disk \in SUBSET { DocumentPath(v) : v \in 1..MaxVersionFiles }
    /\ args \in [op : {"validate"},
                 path : {NoPath} \cup
                        { DocumentPath(v) : v \in 0..MaxVersionFiles - 1 }]
    /\ locals = <<>>
    /\ result = "None"
    /\ pc = "call"

\* validate up to the while loop: an unsaved document does not pass; if the
\* next version exists the search begins, else the base class validates
validate ==
    /\ pc = "call"
    /\ LET info == _get_next_version_info(args.path)
       IN  IF args.path = NoPath
           THEN /\ exc' = Raised("Exception")
                /\ calls' = Append(calls, [label |-> "Save As...",
                                           path |-> NoPath])
                /\ pc' = "raised"
                /\ UNCHANGED <<locals, result>>
           ELSE IF /\ info.next_version_path # NoPath
                   /\ info.next_version_path \in disk
           THEN /\ locals' = info
                /\ pc' = "while"
                /\ UNCHANGED <<exc, calls, result>>
           ELSE /\ locals' = info
                /\ result' = "True"
                /\ pc' = "returned"
                /\ UNCHANGED <<exc, calls>>
    /\ UNCHANGED <<unvalidated_vars, disk, args>>

\* one test of the while condition: the next version is asked for, or the
\* error is logged with its action button and the exception raised
while_exists ==
    /\ pc = "while"
    /\ IF SearchesOn(locals.next_version_path)
       THEN /\ locals' = _get_next_version_info(locals.next_version_path)
            /\ UNCHANGED <<exc, calls, pc>>
       ELSE /\ calls' = Append(calls, [label |-> locals.version,
                                       path |-> locals.next_version_path])
            /\ exc' = Raised("Exception")
            /\ pc' = "raised"
            /\ UNCHANGED locals
    /\ UNCHANGED <<unvalidated_vars, disk, args, result>>

\* the operator presses the action button: its callback,
\* engine.save_to_path(document, next_version_path)
action_button ==
    /\ pc = "raised"
    /\ args.path # NoPath
    /\ disk' = disk \cup {calls[Len(calls)].path}
    /\ pc' = "saved"
    /\ UNCHANGED <<unvalidated_vars, exc, calls, args, locals, result>>

ValidateNext ==
    \/ validate
    \/ while_exists
    \/ action_button

ValidateSpec == ValidateInit /\ [][ValidateNext]_vars

\* validate runs to its end: no step of it waits for anything
ValidateLive == ValidateSpec /\ WF_vars(validate \/ while_exists)

MaxChanges == 3

\* the caches that earlier sessions left in the project scope of the store
StoredCaches ==
    { <<>>,
      serial_cache("a.psd" :> [project |-> "P", task |-> "t1"]),
      serial_cache(("a.psd" :> [project |-> "P", task |-> "t2"]) @@
                   ("b.psd" :> [project |-> "P", task |-> "t1"])) }

\* a new process: the class attributes are fresh
ContextInit ==
    /\ env = [MODELSHEET_PUB_FILE_IDS |-> <<>>]
    /\ pubfiles = <<>>
    /\ playlists = <<>>
    /\ disk = {}
    /\ Idle
    /\ activeDocument = 0
    /\ documents = <<>>
    /\ args = [op |-> "pre_app_init"]
    /\ locals = <<>>
    /\ result = "None"
    /\ app = <<>>
    /\ engine \in { e \in Engines :
                      e.SHOTGUN_ADOBE_HEARTBEAT_TOLERANCE.type = "int" }
    /\ \E stored \in StoredCaches :
         settings = [SCOPE_PROJECT |-> stored, SCOPE_GLOBAL |-> <<>>]
    /\ pc = "post_app_init"

\* settings_manager.store(name, value, scope): the scope is SCOPE_GLOBAL
\* when none is given
store_unscoped(s, value) == [s EXCEPT !.SCOPE_GLOBAL = value]

\* the end of post_app_init: with more than one document open the stored
\* cache is loaded into _CONTEXT_CACHE, else an empty cache is stored
post_app_init ==
    /\ pc = "post_app_init"
    /\ \E n \in 0..2 :
         /\ args' = [op |-> "post_app_init", documents |-> n]
         /\ IF n > 1
            THEN LET serial == settings.SCOPE_PROJECT
                     loaded == [k \in DOMAIN serial |-> deserialize(serial[k])]
                 IN  /\ engine' = [engine EXCEPT
                                     !._CONTEXT_CACHE = loaded @@ @]
                     /\ UNCHANGED settings
            ELSE /\ settings' = store_unscoped(settings, <<>>)
                 /\ UNCHANGED engine
    /\ pc' = "idle"
    /\ result' = "None"
    /\ UNCHANGED <<unhandled_vars, CONTEXT_CHANGES_DISABLED, calls>>

\* the engine is restarted in the same process: a new instance, whose
\* _CONTEXT_CACHE is the dictionary of the class
restart_engine ==
    /\ pc = "idle"
    /\ engine' = [engine EXCEPT
                    !._HEARTBEAT_DISABLED = FALSE,
                    !._FAILED_PINGS = 0,
                    !._PROJECT_CONTEXT = NoContext,
                    !._HAS_CHECKED_CONTEXT_POST_LAUNCH = FALSE]
    /\ args' = [op |-> "pre_app_init"]
    /\ result' = "None"
    /\ pc' = "post_app_init"
    /\ UNCHANGED <<unhandled_vars, CONTEXT_CHANGES_DISABLED, calls, settings>>

\* the host and the integration are started again: a new process
start_process ==
    /\ pc = "idle"
    /\ engine' = [engine EXCEPT
                    !._HEARTBEAT_DISABLED = FALSE,
                    !._FAILED_PINGS = 0,
                    !._PROJECT_CONTEXT = NoContext,
                    !._HAS_CHECKED_CONTEXT_POST_LAUNCH = FALSE,
                    !._CONTEXT_CACHE = <<>>]
    /\ CONTEXT_CHANGES_DISABLED' = FALSE
    /\ args' = [op |-> "pre_app_init"]
    /\ result' = "None"
    /\ pc' = "post_app_init"
    /\ UNCHANGED <<unhandled_vars, calls, settings>>

\* finalize of the publish plugin:
\* engine.add_to_context_cache(new_version_path, item.context)
finalize ==
    /\ pc = "idle"
    /\ \E path \in DocumentPaths \ {""},
          context \in { c \in Contexts : c.project # "" } :
         LET added == add_to_context_cache(engine, settings, path, context)
         IN  /\ args' = [op |-> "add_to_context_cache", path |-> path,
                         context |-> context]
             /\ engine' = added.engine
             /\ settings' = added.settings
    /\ result' = "None"
    /\ UNCHANGED <<unhandled_vars, CONTEXT_CHANGES_DISABLED, calls, pc>>

\* the active-document-change event of the host, its call of change_context
\* noted
active_document_change ==
    /\ pc = "idle"
    /\ Len(calls) < MaxChanges
    /\ \E path \in DocumentPaths, raises \in BOOLEAN :
         LET handled == _handle_active_document_change(
                            engine, settings, CONTEXT_CHANGES_DISABLED, path,
                            raises)
         IN  /\ args' = [op |-> "_handle_active_document_change",
                         path |-> path]
             /\ engine' = handled.engine
             /\ settings' = handled.settings
             /\ result' = handled.returned
             /\ calls' = IF handled.changed_to = NoContext THEN calls
                         ELSE Append(calls, [op |-> "change_context",
                                             context |-> handled.changed_to])
    /\ UNCHANGED <<unhandled_vars, CONTEXT_CHANGES_DISABLED, pc>>

ContextNext ==
    \/ post_app_init
    \/ restart_engine
    \/ start_process
    \/ finalize
    \/ active_document_change
    \/ context_changes_disabled

ContextSpec == ContextInit /\ [][ContextNext]_vars

C30_CacheWriteOnceAndMirrored ==
    /\ [][/\ \A k \in DOMAIN engine._CONTEXT_CACHE
                      \cap DOMAIN engine'._CONTEXT_CACHE :
                engine'._CONTEXT_CACHE[k] = engine._CONTEXT_CACHE[k]
          /\ (/\ args'.op = "add_to_context_cache"
              /\ args'.path \in DOMAIN engine._CONTEXT_CACHE) =>
                /\ engine'._CONTEXT_CACHE = engine._CONTEXT_CACHE
                /\ settings' = settings]_vars
    /\ []((/\ pc = "idle"
           /\ args.op \in {"post_app_init", "add_to_context_cache"}) =>
              settings.SCOPE_PROJECT = serial_cache(engine._CONTEXT_CACHE))


(***************************************************************************)
(* The asynchronous requests for the context header of the panel:          *)
(* __send_state, __on_worker_signal and __on_worker_failure.               *)
(***************************************************************************)
\* largest number of requests given to the data retriever
MaxRequests == 3

\* Python's None where a uid is expected
NoUid == 0

\* the engine after pre_app_init (lines 185-188); sg_data counts the uids
\* that the data retriever has returned
WorkerInit ==
    /\ env = [MODELSHEET_PUB_FILE_IDS |-> <<>>]
    /\ pubfiles = <<>>
    /\ playlists = <<>>
    /\ disk = {}
    /\ Idle
    /\ activeDocument = 0
    /\ documents = <<>>
    /\ args = [op |-> "pre_app_init", uid |-> NoUid]
    /\ locals = <<>>
    /\ result = "None"
    /\ app = <<>>
    /\ settings = <<>>
    /\ engine = [context_find_uid |-> NoUid, context_thumb_uid |-> NoUid,
                 sg_data |-> 0]
    /\ pc = "idle"

\* the variables that these handlers leave alone
unsent_vars == <<unhandled_vars, CONTEXT_CHANGES_DISABLED, settings, pc,
                 result>>

\* a message to the panel, uid being the request whose result it forwards
Send(op, uid) == [op |-> op, uid |-> uid]

\* the two uids are forgotten: lines 1393-1394 (and 846-847)
clear_requests_kept(e) == e

clear_requests(e) ==
    [e EXCEPT !.context_find_uid = NoUid, !.context_thumb_uid = NoUid]

\* the calls of __send_state so far
StateSends ==
    { i \in 1..Len(calls) : calls[i].op = "context_about_to_change" }

\* __send_state, called by post_app_init and post_context_change: the
\* outstanding requests are forgotten; with a context entity a find request
\* is made, without one the site is displayed at once
__send_state ==
    /\ engine.sg_data < MaxRequests
    /\ Cardinality(StateSends) < MaxRequests
    /\ \E entity \in BOOLEAN :
         LET cleared == clear_requests(engine)
             uid == engine.sg_data + 1
         IN  /\ args' = [op |-> "__send_state", uid |-> NoUid]
             /\ IF entity
                THEN /\ engine' = [cleared EXCEPT !.context_find_uid = uid,
                                                  !.sg_data = uid]
                     /\ calls' = calls \o
                          <<Send("context_about_to_change", NoUid),
                            Send("execute_find_one", uid)>>
                ELSE /\ engine' = cleared
                     /\ calls' = calls \o
                          <<Send("context_about_to_change", NoUid),
                            Send("send_context_display", NoUid),
                            Send("send_context_thumbnail", NoUid)>>
    /\ UNCHANGED unsent_vars

\* the except branch of _handle_active_document_change forgets the requests
context_from_path_raises ==
    /\ args' = [op |-> "_handle_active_document_change", uid |-> NoUid]
    /\ engine' = clear_requests(engine)
    /\ UNCHANGED <<unsent_vars, calls>>

\* __on_worker_signal(uid, request_type, data) for the uid of any request
\* made so far; image tells whether the entity found has an image
__on_worker_signal ==
    /\ \E uid \in 1..engine.sg_data, image \in BOOLEAN :
         /\ args' = [op |-> "__on_worker_signal", uid |-> uid]
         /\ IF uid = engine.context_find_uid
            THEN IF image
                 THEN /\ engine.sg_data < MaxRequests
                      /\ engine' = [engine EXCEPT
                                      !.context_find_uid = NoUid,
                                      !.context_thumb_uid = engine.sg_data + 1,
                                      !.sg_data = @ + 1]
                      /\ calls' = calls \o
                           <<Send("request_thumbnail", engine.sg_data + 1),
                             Send("send_context_display", uid)>>
                 ELSE /\ engine' = [engine EXCEPT !.context_find_uid = NoUid]
                      /\ calls' = calls \o
                           <<Send("send_context_thumbnail", uid),
                             Send("send_context_display", uid)>>
            ELSE IF uid = engine.context_thumb_uid
            THEN /\ engine' = [engine EXCEPT !.context_thumb_uid = NoUid]
                 /\ calls' = Append(calls, Send("send_context_thumbnail", uid))
            ELSE UNCHANGED <<engine, calls>>
    /\ UNCHANGED unsent_vars

\* __on_worker_failure(uid, msg) for the uid of any request made so far
__on_worker_failure ==
    /\ \E uid \in 1..engine.sg_data :
         /\ args' = [op |-> "__on_worker_failure", uid |-> uid]
         /\ IF uid = engine.context_find_uid
            THEN /\ engine' = [engine EXCEPT !.context_find_uid = NoUid]
                 /\ calls' = Append(calls, Send("send_context_display", uid))
            ELSE IF uid = engine.context_thumb_uid
            THEN /\ engine' = [engine EXCEPT !.context_thumb_uid = NoUid]
                 /\ UNCHANGED calls
            ELSE UNCHANGED <<engine, calls>>
    /\ UNCHANGED unsent_vars

WorkerNext ==
    \/ __send_state
    \/ context_from_path_raises
    \/ __on_worker_signal
    \/ __on_worker_failure

WorkerSpec == WorkerInit /\ [][WorkerNext]_vars

\* the messages to the panel that forward the result of a request
Forwards == { i \in 1..Len(calls) :
                /\ calls[i].op \in {"send_context_display",
                                    "send_context_thumbnail"}
                /\ calls[i].uid # NoUid }

\* C25: a completion or failure whose uid is neither outstanding uid sends
\* nothing to the panel; every result forwarded belongs to a request made
\* after the last __send_state; and no result is forwarded twice.
C25_OnlyCurrentRequests ==
    /\ [][(/\ args'.op \in {"__on_worker_signal", "__on_worker_failure"}
           /\ args'.uid \notin {engine.context_find_uid,
                                engine.context_thumb_uid}) =>
             calls' = calls]_vars
    /\ [](\A i \in Forwards :
            /\ \E j \in 1..i - 1 :
                 /\ calls[j].op \in {"execute_find_one", "request_thumbnail"}
                 /\ calls[j].uid = calls[i].uid
                 /\ \A k \in j..i : calls[k].op # "context_about_to_change"
            /\ \A j \in Forwards :
                 (calls[j].op = calls[i].op /\ calls[j].uid = calls[i].uid)
                     => j = i)

\* the result of the second find request was forwarded after the first
\* request had been superseded by __send_state, and a result came again
C25_Witness ==
    /\ args.op = "__on_worker_signal"
    /\ args.uid = 1
    /\ engine.sg_data >= 2
    /\ \E i \in Forwards : calls[i].uid = 2
    /\ \A i \in Forwards : calls[i].uid # 1


(***************************************************************************)
(* The command ids: __get_command_uid, pre_app_init, register_command and  *)
(* the dispatch of _handle_command, over successive engine instances.      *)
(***************************************************************************)
\* largest number of engine instances of the process
MaxInstances == 2

\* largest number of calls of __get_command_uid
MaxUids == 7

\* the threads that register commands, and the names of the commands
Threads == {1, 2}
CommandNames == {"publish", "open"}

\* a new instance before pre_app_init: it has no _COMMAND_UID_COUNTER of its
\* own, so the attribute read through it is the one of the class
Instance(n) ==
    [instance |-> n,
     _COMMAND_UID_COUNTER |-> ClassAttributes._COMMAND_UID_COUNTER,
     _LOCK |-> 0,
     jump_to_sg_command_id |-> NoUid,
     jump_to_fs_command_id |-> NoUid,
     commands |-> <<>>]

UidInit ==
    /\ env = [MODELSHEET_PUB_FILE_IDS |-> <<>>]
    /\ pubfiles = <<>>
    /\ playlists = <<>>
    /\ disk = {}
    /\ Idle
    /\ activeDocument = 0
    /\ documents = <<>>
    /\ args = [op |-> "__init__", uid |-> NoUid]
    /\ locals = [t \in Threads |-> ""]
    /\ result = {}
    /\ app = <<>>
    /\ settings = <<>>
    /\ engine = Instance(1)
    /\ pc = "pre_app_init"

\* the variables that these methods leave alone
unregistered_vars == <<env, registry_vars, open_docs, host_running, busy,
                       alerts, logged, request_vars, idx, publish_vars, disk,
                       exc, host_vars, app, settings,
                       CONTEXT_CHANGES_DISABLED>>

\* a uid returned by __get_command_uid of an instance
Returned_uid(instance, uid) ==
    [op |-> "__get_command_uid", instance |-> instance, uid |-> uid]

\* pre_app_init: the ids of the two jump commands (lines 139-141)
pre_app_init ==
    /\ pc = "pre_app_init"
    /\ LET sg == engine._COMMAND_UID_COUNTER + 1
           fs == sg + 1
       IN  /\ engine' = [engine EXCEPT !._COMMAND_UID_COUNTER = fs,
                                       !.jump_to_sg_command_id = sg,
                                       !.jump_to_fs_command_id = fs]
           /\ calls' = calls \o <<Returned_uid(engine.instance, sg),
                                  Returned_uid(engine.instance, fs)>>
    /\ pc' = "ready"
    /\ args' = [op |-> "pre_app_init", uid |-> NoUid]
    /\ UNCHANGED <<unregistered_vars, locals, result>>

\* a thread calls register_command(name, callback) and enters
\* with self._LOCK in __get_command_uid
acquire_LOCK ==
    /\ pc = "ready"
    /\ engine._LOCK = 0
    /\ Len(calls) < MaxUids
    /\ \E t \in Threads, name \in CommandNames :
         /\ locals[t] = ""
         /\ locals' = [locals EXCEPT ![t] = name]
         /\ engine' = [engine EXCEPT !._LOCK = t]
    /\ UNCHANGED <<unregistered_vars, calls, args, result, pc>>

\* self._COMMAND_UID_COUNTER += 1 sets the attribute of the instance; the
\* uid is returned, the lock released and the command registered
register_command ==
    /\ pc = "ready"
    /\ engine._LOCK # 0
    /\ LET t == engine._LOCK
           uid == engine._COMMAND_UID_COUNTER + 1
       IN  /\ engine' = [engine EXCEPT
                           !._COMMAND_UID_COUNTER = uid,
                           !._LOCK = 0,
                           !.commands = (locals[t] :> uid) @@ @]
           /\ calls' = Append(calls, Returned_uid(engine.instance, uid))
           /\ args' = [op |-> "register_command", uid |-> uid]
           /\ locals' = [locals EXCEPT ![t] = ""]
    /\ UNCHANGED <<unregistered_vars, result, pc>>

\* the engine is restarted: a new instance of the class in the same process
new_instance ==
    /\ pc = "ready"
    /\ engine._LOCK = 0
    /\ engine.instance < MaxInstances
    /\ Len(calls) + 2 <= MaxUids
    /\ engine' = Instance(engine.instance + 1)
    /\ args' = [op |-> "__init__", uid |-> NoUid]
    /\ pc' = "pre_app_init"
    /\ UNCHANGED <<unregistered_vars, calls, locals, result>>

\* _handle_command(uid): the callbacks that it runs
dispatch_command ==
    /\ pc = "ready"
    /\ \E uid \in 1..MaxUids :
         /\ args' = [op |-> "_handle_command", uid |-> uid]
         /\ result' =
              IF uid = engine.jump_to_fs_command_id THEN {"_jump_to_fs"}
              ELSE IF uid = engine.jump_to_sg_command_id
              THEN {"_jump_to_sg"}
              ELSE { name \in DOMAIN engine.commands :
                       engine.commands[name] = uid }
    /\ UNCHANGED <<unregistered_vars, calls, locals, engine, pc>>

UidNext ==
    \/ pre_app_init
    \/ acquire_LOCK
    \/ register_command
    \/ new_instance
    \/ dispatch_command

UidSpec == UidInit /\ [][UidNext]_vars

\* the uids of the registered commands and of the two jump commands differ
RegisteredUidsDiffer ==
    /\ \A n1, n2 \in DOMAIN engine.commands :
         engine.commands[n1] = engine.commands[n2] => n1 = n2
    /\ \A n \in DOMAIN engine.commands :
         engine.commands[n] \notin {engine.jump_to_sg_command_id,
                                    engine.jump_to_fs_command_id}
    /\ pc = "ready" =>
         engine.jump_to_sg_command_id # engine.jump_to_fs_command_id

\* C26: no call of __get_command_uid in the process returns an id that an
\* earlier call returned; the registered commands and the two jump commands
\* have different uids; _handle_command(uid) runs at most one callback.
C26_CommandUidsUnique ==
    /\ \A i, j \in 1..Len(calls) : calls[i].uid = calls[j].uid => i = j
    /\ RegisteredUidsDiffer
    /\ Cardinality(result) <= 1


(***************************************************************************)
(* The batch as a whole: the context flag and the open documents.          *)
(***************************************************************************)
\* the batch is between line 71, where it sets _CONTEXT_CHANGES_DISABLED, and
\* line 514, where it resets it
InBatch ==
    pc \in {"for", "open", "draw_export", "saveAs", "export_jpeg",
            "close_export", "open_folder", "resolve", "draw_publish",
            "save_to_path", "thumbnail", "playlists", "create_version",
            "register_publish", "jpeg_proxy", "register_jpeg",
            "close_publish", "upload", "copy_notes", "cleanup"}

\* C27: from the moment add_model_sheet_layer sets _CONTEXT_CHANGES_DISABLED
\* until it resets it after the quit, the flag is True, also after each
\* nested save_to_path, export_as_jpeg and logo placement.
C27_SuspendedForWholeBatch ==
    InBatch => CONTEXT_CHANGES_DISABLED

\* C28: for every export mode at most one document that the batch opened is
\* open at any time, and none is open when the host is asked to quit.
C28_OneDocumentOpen ==
    /\ Len(open_docs) <= 1
    /\ pc = "cleanup" => open_docs = <<>>


\* C29: _FAILED_PINGS stays within 0..SHOTGUN_ADOBE_HEARTBEAT_TOLERANCE; it
\* is 0 after a successful ping; a quit is requested only by a failed ping
\* that follows TOLERANCE failed pings in a row; a tick while
\* _HEARTBEAT_DISABLED is True sends no ping and leaves the counter alone.
C29_FailedPingsBounded ==
    /\ [](engine._FAILED_PINGS \in 0..SHOTGUN_ADOBE_HEARTBEAT_TOLERANCE)
    /\ []((/\ calls # <<>>
           /\ calls[Len(calls)].op = "ping"
           /\ calls[Len(calls)].ok) => engine._FAILED_PINGS = 0)
    /\ [](\A i \in 1..Len(calls) :
            calls[i].op = "quit" =>
              /\ i > SHOTGUN_ADOBE_HEARTBEAT_TOLERANCE + 1
              /\ \A k \in 1..SHOTGUN_ADOBE_HEARTBEAT_TOLERANCE + 1 :
                   calls[i - k].op = "ping" /\ ~calls[i - k].ok)
    /\ [][(engine._HEARTBEAT_DISABLED /\ args'.op = "_check_connection") =>
            /\ calls' = calls
            /\ engine'._FAILED_PINGS = engine._FAILED_PINGS]_vars

\* the quit was requested by the third failed ping in a row
C29_Witness ==
    /\ pc = "quit"
    /\ Len(calls) = SHOTGUN_ADOBE_HEARTBEAT_TOLERANCE + 2
    /\ engine._FAILED_PINGS = SHOTGUN_ADOBE_HEARTBEAT_TOLERANCE

=============================================================================
